---------------------------- MODULE Spec2Model ----------------------------
(***************************************************************************)
(* fleet-monitor: the concurrent in-memory device registry                 *)
(* (storage.DeviceStore) as a state machine.                               *)
(*                                                                         *)
(* The Go heap is explicit: s.devices maps an identifier to a reference    *)
(* into recs (the *DeviceData objects); a slice is a header (a: backing    *)
(* array reference, n: length) into arrs (the backing arrays, each as long *)
(* as its capacity).  Two headers with the same a share storage, as in Go. *)
(* Every sync.RWMutex is a record (w: the writer that has announced itself *)
(* or holds the lock, r: the goroutines holding a read lock).              *)
(* Each goroutine t runs one exported method at a time; pc[t] is its       *)
(* position in the method, loc[t] its parameters and local variables.      *)
(***************************************************************************)
EXTENDS Integers, Sequences, FiniteSets, Bags, TLC

(***************************************************************************)
(* Bounds of the model.                                                    *)
(***************************************************************************)
\* calls of the registry's methods, and changes a caller makes to a snapshot
\* it was handed, together in one behaviour (the boot load of main() apart)
MaxCalls == 3

Threads == {"t1", "t2"}
\* the goroutine that runs main()
MainThread == "t1"
\* every string used as a key of s.devices or as a field of a CSV record
Ids == {"", "d1", "d2", "device_id"}
\* identifiers callers pass to the appends and to GetDeviceData
QueryIds == {"d1", "d2"}
\* time.Time values, as instants; 0 is the zero value of an unset cell
Times == {1, 2}
\* upload times in nanoseconds (int64); callers may pass any int64
UploadVals == {-1, 5}

(***************************************************************************)
(* The CSV sources.  os.Open and csv.Reader.ReadAll are library code: a    *)
(* source is what they yield, i.e. whether it opens, whether it parses,    *)
(* and the records ReadAll returns (each record a sequence of fields).     *)
(***************************************************************************)
FileNames == {"missing", "malformed", "A", "B", "C"}

Records(f) ==
  CASE f = "A" -> << <<"device_id">>, <<"d1">> >>
    [] f = "B" -> << <<"device_id">>, <<"d1", "x">>, <<"">>, <<>>, <<"d2">>, <<"d1">> >>
    [] f = "C" -> << <<"d2">> >>
    [] f = "malformed" -> << <<"device_id">>, <<"d2">> >>
    [] OTHER -> << >>

\* os.Open(filepath) returns no error
Opens(f) == f # "missing"
\* reader.ReadAll() returns no error
Parses(f) == f \notin {"missing", "malformed"}

VARIABLES
  devices,  \* s.devices: identifier -> reference into recs, 0 when absent
  recs,     \* the DeviceData objects on the heap
  arrs,     \* the backing arrays on the heap
  smu,      \* s.mu
  pc,       \* each goroutine's position
  loc,      \* each goroutine's parameters and locals
  calls,    \* number of calls started so far
  loaded,   \* some LoadDevicesFromCSV call has returned nil
  acked     \* history: values whose append call returned nil, per identifier

vars == <<devices, recs, arrs, smu, pc, loc, calls, loaded, acked>>

(***************************************************************************)
(* sync.RWMutex                                                            *)
(***************************************************************************)
NoLock == [w |-> "none", r |-> {}]
\* RLock blocks while a writer holds the lock or has announced itself
CanRLock(m) == m.w = "none"
RLock(m, t) == [m EXCEPT !.r = @ \cup {t}]
RUnlock(m, t) == [m EXCEPT !.r = @ \ {t}]
\* Lock first excludes other writers and new readers ...
CanAnnounce(m) == m.w = "none"
Announce(m, t) == [m EXCEPT !.w = t]
\* ... then waits for the active readers to leave
CanAcquire(m, t) == m.w = t /\ m.r = {}
Unlock(m, t) == [m EXCEPT !.w = "none"]

(***************************************************************************)
(* Slices                                                                  *)
(***************************************************************************)
NilSlice == [a |-> 0, n |-> 0]
Cap(A, s) == IF s.a = 0 THEN 0 ELSE Len(A[s.a])
\* the elements a slice header denotes
Elems(A, s) == [i \in 1..s.n |-> A[s.a][i]]
\* make([]T, n): a zeroed array of its own (none for n = 0)
MakeArrs(A, n) == IF n = 0 THEN A ELSE Append(A, [i \in 1..n |-> 0])
MakeSlice(A, n) == IF n = 0 THEN NilSlice ELSE [a |-> Len(A) + 1, n |-> n]
\* append(s, v): in place when the capacity allows, else into a grown copy
GrowCap(c) == IF c = 0 THEN 1 ELSE 2 * c
AppendArrs(A, s, v) ==
  IF s.n < Cap(A, s)
    THEN [A EXCEPT ![s.a][s.n + 1] = v]
    ELSE Append(A, [i \in 1..GrowCap(Cap(A, s)) |->
                      IF i <= s.n THEN A[s.a][i] ELSE IF i = s.n + 1 THEN v ELSE 0])
AppendSlice(A, s, v) ==
  IF s.n < Cap(A, s)
    THEN [a |-> s.a, n |-> s.n + 1]
    ELSE [a |-> Len(A) + 1, n |-> s.n + 1]

\* what a DeviceData object holds, by value
RecView(r) ==
  [Heartbeats |-> Elems(arrs, recs[r].Heartbeats),
   UploadTimes |-> Elems(arrs, recs[r].UploadTimes)]
Registered == {d \in Ids : devices[d] # 0}
\* the registry by value: the registered identifiers with their sequences
RegistryView == [d \in Registered |-> RecView(devices[d])]

(***************************************************************************)
(* Goroutines                                                              *)
(***************************************************************************)
NoLocals ==
  [op |-> "none", id |-> "", val |-> 0, file |-> "", dev |-> 0,
   exists |-> FALSE, i |-> 0, hdr |-> NilSlice, res |-> 0, err |-> "",
   out |-> << >>,
   handler |-> "none", parses |-> TRUE, status |-> 0, msg |-> "",
   uptime |-> << >>, avg |-> << >>]

NoAcks == [d \in Ids |-> [Heartbeats |-> EmptyBag, UploadTimes |-> EmptyBag]]

\* NewDeviceStore
Init ==
  /\ devices = [d \in Ids |-> 0]
  /\ recs = << >>
  /\ arrs = << >>
  /\ smu = NoLock
  /\ pc = [t \in Threads |-> "idle"]
  /\ loc = [t \in Threads |-> NoLocals]
  /\ calls = 0
  /\ loaded = FALSE
  /\ acked = NoAcks

heap == <<devices, recs, arrs>>

(***************************************************************************)
(* LoadDevicesFromCSV                                                      *)
(***************************************************************************)
\* os.Open(filepath)
OpenFile(t, f) ==
  /\ pc[t] = "idle"
  /\ IF Opens(f)
       THEN /\ pc' = [pc EXCEPT ![t] = "load_read"]
            /\ loc' = [loc EXCEPT ![t] = [NoLocals EXCEPT !.op = "Load", !.file = f]]
       ELSE /\ pc' = [pc EXCEPT ![t] = "done"]
            /\ loc' = [loc EXCEPT ![t] = [NoLocals EXCEPT !.op = "Load", !.file = f,
                                                           !.err = "failed to open CSV file"]]
  /\ UNCHANGED <<heap, smu, loaded, acked>>

\* the call
LoadOpen(t, f) ==
  /\ calls < MaxCalls
  /\ calls' = calls + 1
  /\ OpenFile(t, f)

\* mutant of LoadReadAll: the records read before the parse error are
\* registered before the error is returned
LoadReadAllPartial(t) ==
  /\ pc[t] = "load_read"
  /\ IF Parses(loc[t].file)
       THEN /\ pc' = [pc EXCEPT ![t] = "load_lock"]
            /\ loc' = loc
            /\ UNCHANGED heap
       ELSE /\ pc' = [pc EXCEPT ![t] = "done"]
            /\ loc' = [loc EXCEPT ![t].err = "failed to read CSV file"]
            /\ recs' = Append(recs, [Heartbeats |-> NilSlice, UploadTimes |-> NilSlice,
                                     mu |-> NoLock])
            /\ devices' = [d \in Ids |->
                             IF \E i \in 2..Len(Records(loc[t].file)) :
                                  Records(loc[t].file)[i] = <<d>>
                               THEN Len(recs) + 1 ELSE devices[d]]
            /\ arrs' = arrs
  /\ UNCHANGED <<smu, calls, loaded, acked>>

\* reader.ReadAll()
LoadReadAll(t) ==
  /\ pc[t] = "load_read"
  /\ IF Parses(loc[t].file)
       THEN /\ pc' = [pc EXCEPT ![t] = "load_lock"]
            /\ loc' = loc
       ELSE /\ pc' = [pc EXCEPT ![t] = "done"]
            /\ loc' = [loc EXCEPT ![t].err = "failed to read CSV file"]
  /\ UNCHANGED <<heap, smu, calls, loaded, acked>>

\* mutant of LoadLock: the loop runs without s.mu
LoadLockSkipped(t) ==
  /\ pc[t] = "load_lock"
  /\ pc' = [pc EXCEPT ![t] = "load_loop"]
  /\ loc' = [loc EXCEPT ![t].i = 1]
  /\ UNCHANGED <<heap, smu, calls, loaded, acked>>

\* s.mu.Lock(): announce
LoadLock(t) ==
  /\ pc[t] = "load_lock"
  /\ CanAnnounce(smu)
  /\ smu' = Announce(smu, t)
  /\ pc' = [pc EXCEPT ![t] = "load_wait"]
  /\ UNCHANGED <<heap, loc, calls, loaded, acked>>

\* s.mu.Lock(): the readers have left
LoadAcquire(t) ==
  /\ pc[t] = "load_wait"
  /\ CanAcquire(smu, t)
  /\ pc' = [pc EXCEPT ![t] = "load_loop"]
  /\ loc' = [loc EXCEPT ![t].i = 1]
  /\ UNCHANGED <<heap, smu, calls, loaded, acked>>

\* mutant of LoadRecord: the header record is not skipped
LoadRecordWithHeader(t) ==
  /\ pc[t] = "load_loop"
  /\ loc[t].i <= Len(Records(loc[t].file))
  /\ LET record == Records(loc[t].file)[loc[t].i]
     IN IF Len(record) > 0 /\ record[1] # ""
          THEN /\ recs' = Append(recs, [Heartbeats |-> MakeSlice(arrs, 0),
                                        UploadTimes |-> MakeSlice(arrs, 0),
                                        mu |-> NoLock])
               /\ arrs' = MakeArrs(MakeArrs(arrs, 0), 0)
               /\ devices' = [devices EXCEPT ![record[1]] = Len(recs) + 1]
          ELSE UNCHANGED heap
  /\ loc' = [loc EXCEPT ![t].i = @ + 1]
  /\ UNCHANGED <<smu, pc, calls, loaded, acked>>

\* mutant of LoadRecord: make([]time.Time, 1) for make([]time.Time, 0)
LoadRecordLenOne(t) ==
  /\ pc[t] = "load_loop"
  /\ loc[t].i <= Len(Records(loc[t].file))
  /\ LET record == Records(loc[t].file)[loc[t].i]
     IN IF loc[t].i # 1 /\ Len(record) > 0 /\ record[1] # ""
          THEN /\ recs' = Append(recs, [Heartbeats |-> MakeSlice(arrs, 1),
                                        UploadTimes |-> MakeSlice(MakeArrs(arrs, 1), 0),
                                        mu |-> NoLock])
               /\ arrs' = MakeArrs(MakeArrs(arrs, 1), 0)
               /\ devices' = [devices EXCEPT ![record[1]] = Len(recs) + 1]
          ELSE UNCHANGED heap
  /\ loc' = [loc EXCEPT ![t].i = @ + 1]
  /\ UNCHANGED <<smu, pc, calls, loaded, acked>>

\* one iteration of the loop over records (i is 1-based here, 0-based in Go)
LoadRecord(t) ==
  /\ pc[t] = "load_loop"
  /\ loc[t].i <= Len(Records(loc[t].file))
  /\ LET record == Records(loc[t].file)[loc[t].i]
     IN IF loc[t].i # 1 /\ Len(record) > 0 /\ record[1] # ""
          THEN /\ recs' = Append(recs, [Heartbeats |-> MakeSlice(arrs, 0),
                                        UploadTimes |-> MakeSlice(arrs, 0),
                                        mu |-> NoLock])
               /\ arrs' = MakeArrs(MakeArrs(arrs, 0), 0)
               /\ devices' = [devices EXCEPT ![record[1]] = Len(recs) + 1]
          ELSE UNCHANGED heap
  /\ loc' = [loc EXCEPT ![t].i = @ + 1]
  /\ UNCHANGED <<smu, pc, calls, loaded, acked>>

\* the loop is over: the deferred s.mu.Unlock(), return nil
LoadReturn(t) ==
  /\ pc[t] = "load_loop"
  /\ loc[t].i > Len(Records(loc[t].file))
  /\ smu' = Unlock(smu, t)
  /\ pc' = [pc EXCEPT ![t] = "done"]
  /\ loaded' = TRUE
  /\ UNCHANGED <<heap, loc, calls, acked>>

LoadDevicesFromCSV(t) ==
  \/ \E f \in FileNames : LoadOpen(t, f)
  \/ LoadReadAll(t)
  \/ LoadLock(t)
  \/ LoadAcquire(t)
  \/ LoadRecord(t)
  \/ LoadReturn(t)

(***************************************************************************)
(* DeviceExists                                                            *)
(***************************************************************************)
\* the call and s.mu.RLock()
ExistsRLock(t, d) ==
  /\ pc[t] = "idle"
  /\ calls < MaxCalls
  /\ CanRLock(smu)
  /\ smu' = RLock(smu, t)
  /\ calls' = calls + 1
  /\ pc' = [pc EXCEPT ![t] = "ex_lookup"]
  /\ loc' = [loc EXCEPT ![t] = [NoLocals EXCEPT !.op = "DeviceExists", !.id = d]]
  /\ UNCHANGED <<heap, loaded, acked>>

\* _, exists := s.devices[deviceID]
ExistsLookup(t) ==
  /\ pc[t] = "ex_lookup"
  /\ loc' = [loc EXCEPT ![t].exists = devices[loc[t].id] # 0]
  /\ pc' = [pc EXCEPT ![t] = "ex_ret"]
  /\ UNCHANGED <<heap, smu, calls, loaded, acked>>

\* the deferred s.mu.RUnlock(), return exists
ExistsReturn(t) ==
  /\ pc[t] = "ex_ret"
  /\ smu' = RUnlock(smu, t)
  /\ pc' = [pc EXCEPT ![t] = "done"]
  /\ UNCHANGED <<heap, loc, calls, loaded, acked>>

DeviceExists(t) ==
  \/ \E d \in Ids : ExistsRLock(t, d)
  \/ ExistsLookup(t)
  \/ ExistsReturn(t)

(***************************************************************************)
(* AddHeartbeat and AddUploadTime: the same steps on the two fields        *)
(***************************************************************************)
\* mutant of FieldOf: the two fields exchanged
FieldOfSwapped(op) == IF op = "AddHeartbeat" THEN "UploadTimes" ELSE "Heartbeats"

FieldOf(op) == IF op = "AddHeartbeat" THEN "Heartbeats" ELSE "UploadTimes"

\* the call and s.mu.RLock()
AppendRLock(t, op, d, v) ==
  /\ pc[t] = "idle"
  /\ calls < MaxCalls
  /\ CanRLock(smu)
  /\ smu' = RLock(smu, t)
  /\ calls' = calls + 1
  /\ pc' = [pc EXCEPT ![t] = "add_lookup"]
  /\ loc' = [loc EXCEPT ![t] = [NoLocals EXCEPT !.op = op, !.id = d, !.val = v]]
  /\ UNCHANGED <<heap, loaded, acked>>

\* device, exists := s.devices[deviceID]
AppendLookup(t, op) ==
  /\ pc[t] = "add_lookup"
  /\ loc[t].op = op
  /\ loc' = [loc EXCEPT ![t].dev = devices[loc[t].id],
                        ![t].exists = devices[loc[t].id] # 0]
  /\ pc' = [pc EXCEPT ![t] = "add_runlock"]
  /\ UNCHANGED <<heap, smu, calls, loaded, acked>>

\* mutant of AppendRUnlock: an unknown identifier is ignored, nil returned
AppendRUnlockSwallow(t, op) ==
  /\ pc[t] = "add_runlock"
  /\ loc[t].op = op
  /\ smu' = RUnlock(smu, t)
  /\ pc' = [pc EXCEPT ![t] = IF loc[t].exists THEN "add_lock" ELSE "done"]
  /\ UNCHANGED <<heap, loc, calls, loaded, acked>>

\* mutant of AppendRUnlock: an unknown identifier is registered on the fly
AppendRUnlockUpsert(t, op) ==
  /\ pc[t] = "add_runlock"
  /\ loc[t].op = op
  /\ smu' = RUnlock(smu, t)
  /\ pc' = [pc EXCEPT ![t] = "add_lock"]
  /\ IF loc[t].exists
       THEN UNCHANGED <<heap, loc>>
       ELSE /\ recs' = Append(recs, [Heartbeats |-> NilSlice, UploadTimes |-> NilSlice,
                                     mu |-> NoLock])
            /\ devices' = [devices EXCEPT ![loc[t].id] = Len(recs) + 1]
            /\ loc' = [loc EXCEPT ![t].dev = Len(recs) + 1, ![t].exists = TRUE]
            /\ arrs' = arrs
  /\ UNCHANGED <<calls, loaded, acked>>

\* mutant of AppendRUnlock: s.mu stays read-locked while device.mu is taken
AppendRUnlockKept(t, op) ==
  /\ pc[t] = "add_runlock"
  /\ loc[t].op = op
  /\ smu' = IF loc[t].exists THEN smu ELSE RUnlock(smu, t)
  /\ IF loc[t].exists
       THEN /\ pc' = [pc EXCEPT ![t] = "add_lock"]
            /\ loc' = loc
       ELSE /\ pc' = [pc EXCEPT ![t] = "done"]
            /\ loc' = [loc EXCEPT ![t].err = "device not found"]
  /\ UNCHANGED <<heap, calls, loaded, acked>>

\* s.mu.RUnlock(); if !exists { return "device not found" }
AppendRUnlock(t, op) ==
  /\ pc[t] = "add_runlock"
  /\ loc[t].op = op
  /\ smu' = RUnlock(smu, t)
  /\ IF loc[t].exists
       THEN /\ pc' = [pc EXCEPT ![t] = "add_lock"]
            /\ loc' = loc
       ELSE /\ pc' = [pc EXCEPT ![t] = "done"]
            /\ loc' = [loc EXCEPT ![t].err = "device not found"]
  /\ UNCHANGED <<heap, calls, loaded, acked>>

\* mutant of AppendLock: the append runs without device.mu
AppendLockSkipped(t, op) ==
  /\ pc[t] = "add_lock"
  /\ loc[t].op = op
  /\ pc' = [pc EXCEPT ![t] = "add_read"]
  /\ UNCHANGED <<heap, smu, loc, calls, loaded, acked>>

\* mutant of AppendLock: one lock for the sequences of all devices, so the
\* append waits while any record is locked for writing
AppendLockGlobal(t, op) ==
  /\ pc[t] = "add_lock"
  /\ loc[t].op = op
  /\ \A r \in 1..Len(recs) : CanAnnounce(recs[r].mu)
  /\ recs' = [recs EXCEPT ![loc[t].dev].mu = Announce(@, t)]
  /\ pc' = [pc EXCEPT ![t] = "add_wait"]
  /\ UNCHANGED <<devices, arrs, smu, loc, calls, loaded, acked>>

\* device.mu.Lock(): announce
AppendLock(t, op) ==
  /\ pc[t] = "add_lock"
  /\ loc[t].op = op
  /\ CanAnnounce(recs[loc[t].dev].mu)
  /\ recs' = [recs EXCEPT ![loc[t].dev].mu = Announce(@, t)]
  /\ pc' = [pc EXCEPT ![t] = "add_wait"]
  /\ UNCHANGED <<devices, arrs, smu, loc, calls, loaded, acked>>

\* mutant of AppendAcquire: the writer does not wait for the readers to leave
AppendAcquireEarly(t, op) ==
  /\ pc[t] = "add_wait"
  /\ loc[t].op = op
  /\ recs[loc[t].dev].mu.w = t
  /\ pc' = [pc EXCEPT ![t] = "add_read"]
  /\ UNCHANGED <<heap, smu, loc, calls, loaded, acked>>

\* device.mu.Lock(): the readers have left
AppendAcquire(t, op) ==
  /\ pc[t] = "add_wait"
  /\ loc[t].op = op
  /\ CanAcquire(recs[loc[t].dev].mu, t)
  /\ pc' = [pc EXCEPT ![t] = "add_read"]
  /\ UNCHANGED <<heap, smu, loc, calls, loaded, acked>>

\* append(device.F, v): the operand device.F is read
AppendRead(t, op) ==
  /\ pc[t] = "add_read"
  /\ loc[t].op = op
  /\ loc' = [loc EXCEPT ![t].hdr = recs[loc[t].dev][FieldOf(op)]]
  /\ pc' = [pc EXCEPT ![t] = "add_write"]
  /\ UNCHANGED <<heap, smu, calls, loaded, acked>>

\* mutant of AppendWrite: device.F = []T{v}
AppendWriteReplace(t, op) ==
  /\ pc[t] = "add_write"
  /\ loc[t].op = op
  /\ arrs' = Append(arrs, <<loc[t].val>>)
  /\ recs' = [recs EXCEPT ![loc[t].dev][FieldOf(op)] = [a |-> Len(arrs) + 1, n |-> 1]]
  /\ pc' = [pc EXCEPT ![t] = "add_ret"]
  /\ UNCHANGED <<devices, smu, loc, calls, loaded, acked>>

\* mutant of AppendWrite: the value is put at its place in ascending order
AppendWriteSorted(t, op) ==
  /\ pc[t] = "add_write"
  /\ loc[t].op = op
  /\ LET old == Elems(arrs, loc[t].hdr)
         k == Cardinality({i \in 1..Len(old) : old[i] <= loc[t].val})
     IN /\ arrs' = Append(arrs, SubSeq(old, 1, k) \o <<loc[t].val>> \o SubSeq(old, k + 1, Len(old)))
        /\ recs' = [recs EXCEPT ![loc[t].dev][FieldOf(op)] =
                                  [a |-> Len(arrs) + 1, n |-> Len(old) + 1]]
  /\ pc' = [pc EXCEPT ![t] = "add_ret"]
  /\ UNCHANGED <<devices, smu, loc, calls, loaded, acked>>

\* device.F = append(...): the element is written, the header stored
AppendWrite(t, op) ==
  /\ pc[t] = "add_write"
  /\ loc[t].op = op
  /\ arrs' = AppendArrs(arrs, loc[t].hdr, loc[t].val)
  /\ recs' = [recs EXCEPT ![loc[t].dev][FieldOf(op)] =
                            AppendSlice(arrs, loc[t].hdr, loc[t].val)]
  /\ pc' = [pc EXCEPT ![t] = "add_ret"]
  /\ UNCHANGED <<devices, smu, loc, calls, loaded, acked>>

\* mutant of AppendReturn: return nil without device.mu.Unlock()
AppendReturnLocked(t, op) ==
  /\ pc[t] = "add_ret"
  /\ loc[t].op = op
  /\ pc' = [pc EXCEPT ![t] = "done"]
  /\ acked' = [acked EXCEPT ![loc[t].id][FieldOf(op)] = @ (+) SetToBag({loc[t].val})]
  /\ UNCHANGED <<heap, smu, loc, calls, loaded>>

\* the deferred device.mu.Unlock(), return nil
AppendReturn(t, op) ==
  /\ pc[t] = "add_ret"
  /\ loc[t].op = op
  /\ recs' = [recs EXCEPT ![loc[t].dev].mu = Unlock(@, t)]
  /\ pc' = [pc EXCEPT ![t] = "done"]
  /\ acked' = [acked EXCEPT ![loc[t].id][FieldOf(op)] = @ (+) SetToBag({loc[t].val})]
  /\ UNCHANGED <<devices, arrs, smu, loc, calls, loaded>>

AddHeartbeat(t) ==
  \/ \E d \in QueryIds, v \in Times : AppendRLock(t, "AddHeartbeat", d, v)
  \/ AppendLookup(t, "AddHeartbeat")
  \/ AppendRUnlock(t, "AddHeartbeat")
  \/ AppendLock(t, "AddHeartbeat")
  \/ AppendAcquire(t, "AddHeartbeat")
  \/ AppendRead(t, "AddHeartbeat")
  \/ AppendWrite(t, "AddHeartbeat")
  \/ AppendReturn(t, "AddHeartbeat")

AddUploadTime(t) ==
  \/ \E d \in QueryIds, v \in UploadVals : AppendRLock(t, "AddUploadTime", d, v)
  \/ AppendLookup(t, "AddUploadTime")
  \/ AppendRUnlock(t, "AddUploadTime")
  \/ AppendLock(t, "AddUploadTime")
  \/ AppendAcquire(t, "AddUploadTime")
  \/ AppendRead(t, "AddUploadTime")
  \/ AppendWrite(t, "AddUploadTime")
  \/ AppendReturn(t, "AddUploadTime")

(***************************************************************************)
(* GetDeviceData                                                           *)
(***************************************************************************)
\* the call and s.mu.RLock()
GetRLock(t, d) ==
  /\ pc[t] = "idle"
  /\ calls < MaxCalls
  /\ CanRLock(smu)
  /\ smu' = RLock(smu, t)
  /\ calls' = calls + 1
  /\ pc' = [pc EXCEPT ![t] = "get_lookup"]
  /\ loc' = [loc EXCEPT ![t] = [NoLocals EXCEPT !.op = "GetDeviceData", !.id = d]]
  /\ UNCHANGED <<heap, loaded, acked>>

\* device, exists := s.devices[deviceID]
GetLookup(t) ==
  /\ pc[t] = "get_lookup"
  /\ loc' = [loc EXCEPT ![t].dev = devices[loc[t].id],
                        ![t].exists = devices[loc[t].id] # 0]
  /\ pc' = [pc EXCEPT ![t] = "get_runlock"]
  /\ UNCHANGED <<heap, smu, calls, loaded, acked>>

\* mutant of GetRUnlock: an unknown identifier yields an empty DeviceData
\* and a nil error
GetRUnlockEmpty(t) ==
  /\ pc[t] = "get_runlock"
  /\ smu' = RUnlock(smu, t)
  /\ IF loc[t].exists
       THEN /\ pc' = [pc EXCEPT ![t] = "get_drlock"]
            /\ loc' = loc
            /\ UNCHANGED heap
       ELSE /\ pc' = [pc EXCEPT ![t] = "done"]
            /\ recs' = Append(recs, [Heartbeats |-> NilSlice, UploadTimes |-> NilSlice,
                                     mu |-> NoLock])
            /\ loc' = [loc EXCEPT ![t].res = Len(recs) + 1]
            /\ UNCHANGED <<devices, arrs>>
  /\ UNCHANGED <<calls, loaded, acked>>

\* s.mu.RUnlock(); if !exists { return nil, "device not found" }
GetRUnlock(t) ==
  /\ pc[t] = "get_runlock"
  /\ smu' = RUnlock(smu, t)
  /\ IF loc[t].exists
       THEN /\ pc' = [pc EXCEPT ![t] = "get_drlock"]
            /\ loc' = loc
       ELSE /\ pc' = [pc EXCEPT ![t] = "done"]
            /\ loc' = [loc EXCEPT ![t].err = "device not found"]
  /\ UNCHANGED <<heap, calls, loaded, acked>>

\* mutant of GetDevRLock: the copy runs without device.mu
GetDevRLockSkipped(t) ==
  /\ pc[t] = "get_drlock"
  /\ pc' = [pc EXCEPT ![t] = "get_make"]
  /\ UNCHANGED <<heap, smu, loc, calls, loaded, acked>>

\* device.mu.RLock()
GetDevRLock(t) ==
  /\ pc[t] = "get_drlock"
  /\ CanRLock(recs[loc[t].dev].mu)
  /\ recs' = [recs EXCEPT ![loc[t].dev].mu = RLock(@, t)]
  /\ pc' = [pc EXCEPT ![t] = "get_make"]
  /\ UNCHANGED <<devices, arrs, smu, loc, calls, loaded, acked>>

\* mutant of GetMake: copy := &DeviceData{device.Heartbeats, device.UploadTimes}
GetMakeShallow(t) ==
  /\ pc[t] = "get_make"
  /\ recs' = Append(recs, [Heartbeats |-> recs[loc[t].dev].Heartbeats,
                           UploadTimes |-> recs[loc[t].dev].UploadTimes,
                           mu |-> NoLock])
  /\ loc' = [loc EXCEPT ![t].res = Len(recs) + 1]
  /\ pc' = [pc EXCEPT ![t] = "get_copy_hb"]
  /\ UNCHANGED <<devices, arrs, smu, calls, loaded, acked>>

\* copy := &DeviceData{make(len(device.Heartbeats)), make(len(device.UploadTimes))}
GetMake(t) ==
  /\ pc[t] = "get_make"
  /\ LET nh == recs[loc[t].dev].Heartbeats.n
         nu == recs[loc[t].dev].UploadTimes.n
         A1 == MakeArrs(arrs, nh)
     IN /\ arrs' = MakeArrs(A1, nu)
        /\ recs' = Append(recs, [Heartbeats |-> MakeSlice(arrs, nh),
                                 UploadTimes |-> MakeSlice(A1, nu),
                                 mu |-> NoLock])
  /\ loc' = [loc EXCEPT ![t].res = Len(recs) + 1]
  /\ pc' = [pc EXCEPT ![t] = "get_copy_hb"]
  /\ UNCHANGED <<devices, smu, calls, loaded, acked>>

\* for i, v := range src { dst[i] = v }: the arrays after the writes that succeed
CopyArrs(A, dst, src) ==
  IF dst.a = 0 THEN A
  ELSE [A EXCEPT ![dst.a] =
          [i \in 1..Len(A[dst.a]) |-> IF i <= src.n /\ i <= dst.n THEN A[src.a][i]
                                                                  ELSE A[dst.a][i]]]
\* dst[i] with i >= len(dst) panics: index out of range
CopyPanics(dst, src) == src.n > dst.n

\* mutant of GetCopyHeartbeats: nothing is copied
GetCopyHeartbeatsSkipped(t) ==
  /\ pc[t] = "get_copy_hb"
  /\ pc' = [pc EXCEPT ![t] = "get_copy_up"]
  /\ UNCHANGED <<heap, smu, loc, calls, loaded, acked>>

\* copySlice(copy.Heartbeats, device.Heartbeats)
GetCopyHeartbeats(t) ==
  /\ pc[t] = "get_copy_hb"
  /\ LET dst == recs[loc[t].res].Heartbeats
         src == recs[loc[t].dev].Heartbeats
     IN /\ arrs' = CopyArrs(arrs, dst, src)
        /\ pc' = [pc EXCEPT ![t] = IF CopyPanics(dst, src) THEN "get_panic"
                                                           ELSE "get_copy_up"]
  /\ UNCHANGED <<devices, recs, smu, loc, calls, loaded, acked>>

\* copyInt64Slice(copy.UploadTimes, device.UploadTimes)
GetCopyUploadTimes(t) ==
  /\ pc[t] = "get_copy_up"
  /\ LET dst == recs[loc[t].res].UploadTimes
         src == recs[loc[t].dev].UploadTimes
     IN /\ arrs' = CopyArrs(arrs, dst, src)
        /\ pc' = [pc EXCEPT ![t] = IF CopyPanics(dst, src) THEN "get_panic"
                                                           ELSE "get_ret"]
  /\ UNCHANGED <<devices, recs, smu, loc, calls, loaded, acked>>

\* mutant of GetReturn: the copy is returned with device.mu still read-locked
GetReturnLocked(t) ==
  /\ pc[t] \in {"get_ret", "get_panic"}
  /\ pc' = [pc EXCEPT ![t] = IF pc[t] = "get_ret" THEN "done" ELSE "panicked"]
  /\ UNCHANGED <<devices, recs, arrs, smu, loc, calls, loaded, acked>>

\* mutant of GetReturn: the heartbeats handed out are taken off the record
GetReturnDrain(t) ==
  /\ pc[t] \in {"get_ret", "get_panic"}
  /\ recs' = [recs EXCEPT ![loc[t].dev].mu = RUnlock(@, t),
                          ![loc[t].dev].Heartbeats = NilSlice]
  /\ pc' = [pc EXCEPT ![t] = IF pc[t] = "get_ret" THEN "done" ELSE "panicked"]
  /\ UNCHANGED <<devices, arrs, smu, loc, calls, loaded, acked>>

\* the deferred device.mu.RUnlock(), return copy, nil (or the panic unwinds)
GetReturn(t) ==
  /\ pc[t] \in {"get_ret", "get_panic"}
  /\ recs' = [recs EXCEPT ![loc[t].dev].mu = RUnlock(@, t)]
  /\ pc' = [pc EXCEPT ![t] = IF pc[t] = "get_ret" THEN "done" ELSE "panicked"]
  /\ UNCHANGED <<devices, arrs, smu, loc, calls, loaded, acked>>

GetDeviceData(t) ==
  \/ \E d \in QueryIds : GetRLock(t, d)
  \/ GetLookup(t)
  \/ GetRUnlock(t)
  \/ GetDevRLock(t)
  \/ GetMake(t)
  \/ GetCopyHeartbeats(t)
  \/ GetCopyUploadTimes(t)
  \/ GetReturn(t)

(***************************************************************************)
(* The caller of GetDeviceData owns the *DeviceData it was handed and may  *)
(* change it: overwrite an element, truncate, append.                      *)
(***************************************************************************)
HoldsSnapshot(t) ==
  pc[t] = "done" /\ loc[t].op = "GetDeviceData" /\ loc[t].res # 0

\* the values a caller writes into its copy
CallerVals == {9}
Fields == {"Heartbeats", "UploadTimes"}

\* data.F[0] = v
CallerOverwrite(t, F, v) ==
  /\ HoldsSnapshot(t)
  /\ calls < MaxCalls
  /\ recs[loc[t].res][F].n > 0
  /\ arrs' = [arrs EXCEPT ![recs[loc[t].res][F].a][1] = v]
  /\ calls' = calls + 1
  /\ UNCHANGED <<devices, recs, smu, pc, loc, loaded, acked>>

\* data.F = data.F[:0]
CallerTruncate(t, F) ==
  /\ HoldsSnapshot(t)
  /\ calls < MaxCalls
  /\ recs[loc[t].res][F].n > 0
  /\ recs' = [recs EXCEPT ![loc[t].res][F].n = 0]
  /\ calls' = calls + 1
  /\ UNCHANGED <<devices, arrs, smu, pc, loc, loaded, acked>>

\* data.F = append(data.F, v)
CallerAppend(t, F, v) ==
  /\ HoldsSnapshot(t)
  /\ calls < MaxCalls
  /\ arrs' = AppendArrs(arrs, recs[loc[t].res][F], v)
  /\ recs' = [recs EXCEPT ![loc[t].res][F] = AppendSlice(arrs, @, v)]
  /\ calls' = calls + 1
  /\ UNCHANGED <<devices, smu, pc, loc, loaded, acked>>

CallerMutates(t) ==
  \E F \in Fields, v \in CallerVals :
    \/ CallerOverwrite(t, F, v)
    \/ CallerTruncate(t, F)
    \/ CallerAppend(t, F, v)

\* the caller takes the result; the goroutine is free for its next call
Return(t) ==
  /\ pc[t] = "done"
  /\ pc' = [pc EXCEPT ![t] = "idle"]
  /\ loc' = [loc EXCEPT ![t] = NoLocals]
  /\ UNCHANGED <<heap, smu, calls, loaded, acked>>

(***************************************************************************)
(* Spec: the registry as a library.  Any goroutine may call any exported   *)
(* method at any time, LoadDevicesFromCSV included.                        *)
(***************************************************************************)
Next ==
  \E t \in Threads :
    \/ LoadDevicesFromCSV(t)
    \/ DeviceExists(t)
    \/ AddHeartbeat(t)
    \/ AddUploadTime(t)
    \/ GetDeviceData(t)
    \/ Return(t)

Spec == Init /\ [][Next]_vars

(***************************************************************************)
(* ServeSpec: the registry as main() uses it.  The main goroutine loads    *)
(* the device list once, before the routes exist; requests are served only *)
(* after that load returned nil (log.Fatalf ends the process otherwise).   *)
(***************************************************************************)
BootLoad(t) ==
  /\ t = MainThread
  /\ ~loaded
  /\ \E f \in FileNames : OpenFile(t, f)
  /\ UNCHANGED calls

Boot(t) ==
  \/ BootLoad(t)
  \/ LoadReadAll(t)
  \/ LoadLock(t)
  \/ LoadAcquire(t)
  \/ LoadRecord(t)
  \/ LoadReturn(t)

ServeNext ==
  \E t \in Threads :
    \/ Boot(t)
    \/ loaded /\ DeviceExists(t)
    \/ loaded /\ AddHeartbeat(t)
    \/ loaded /\ AddUploadTime(t)
    \/ loaded /\ GetDeviceData(t)
    \/ loaded /\ CallerMutates(t)
    \/ loaded /\ Return(t)

ServeSpec == Init /\ [][ServeNext]_vars

(***************************************************************************)
(* FairSpec: Spec with the scheduler's fairness.  A goroutine inside a     *)
(* call that can take its next step eventually takes it (the Go scheduler  *)
(* preempts, and a blocked Lock or RLock is granted once the lock is free).*)
(***************************************************************************)
InCall(t) == pc[t] \notin {"idle", "done", "panicked"}

\* the next step of the call t is in
Proceed(t) ==
  /\ InCall(t)
  /\ \/ LoadDevicesFromCSV(t)
     \/ DeviceExists(t)
     \/ AddHeartbeat(t)
     \/ AddUploadTime(t)
     \/ GetDeviceData(t)

FairSpec == Spec /\ \A t \in Threads : WF_vars(Proceed(t))

(***************************************************************************)
(* Statistics engine: numbers.  Go's int64, time.Duration and float64 are  *)
(* wider than the integers of the checker, so a natural number is kept as  *)
(* the sequence of its 16-bit limbs, least significant first, without      *)
(* leading zero limbs (the empty sequence is 0).                           *)
(***************************************************************************)
Limb == 2^16
Max(a, b) == IF a >= b THEN a ELSE b
Min(a, b) == IF a <= b THEN a ELSE b

RECURSIVE NatOfInt(_)
NatOfInt(k) == IF k = 0 THEN << >> ELSE <<k % Limb>> \o NatOfInt(k \div Limb)

Digit(a, i) == IF i <= Len(a) THEN a[i] ELSE 0

RECURSIVE NatTrim(_)
NatTrim(a) ==
  IF a = << >> THEN a
  ELSE IF a[Len(a)] = 0 THEN NatTrim(SubSeq(a, 1, Len(a) - 1)) ELSE a

\* limbs i.. of a, each possibly beyond a limb, with the carry c propagated
RECURSIVE NatCarry(_, _, _)
NatCarry(a, i, c) ==
  IF i > Len(a) THEN NatOfInt(c)
  ELSE <<(a[i] + c) % Limb>> \o NatCarry(a, i + 1, (a[i] + c) \div Limb)

NatAdd(a, b) ==
  NatTrim(NatCarry([i \in 1..Max(Len(a), Len(b)) |-> Digit(a, i) + Digit(b, i)], 1, 0))

\* a * k for 0 <= k <= 2^15
NatMulSmall(a, k) == NatTrim(NatCarry([i \in 1..Len(a) |-> a[i] * k], 1, 0))

NatLess(a, b) ==
  IF Len(a) # Len(b) THEN Len(a) < Len(b)
  ELSE LET D == {i \in 1..Len(a) : a[i] # b[i]}
       IN D # {} /\ LET i == CHOOSE x \in D : \A y \in D : y <= x IN a[i] < b[i]

RECURSIVE NatBorrow(_, _, _, _)
NatBorrow(a, b, i, br) ==
  IF i > Len(a) THEN << >>
  ELSE LET d == a[i] - Digit(b, i) - br
       IN <<IF d < 0 THEN d + Limb ELSE d>> \o NatBorrow(a, b, i + 1, IF d < 0 THEN 1 ELSE 0)

\* a - b for a >= b
NatSub(a, b) == NatTrim(NatBorrow(a, b, 1, 0))

\* limbs i..1 of a divided by k, 0 < k <= 2^15, with r carried in from above
RECURSIVE NatDivSmallRec(_, _, _, _)
NatDivSmallRec(a, k, i, r) ==
  IF i = 0 THEN [q |-> << >>, r |-> r]
  ELSE LET cur == r * Limb + a[i]
           rest == NatDivSmallRec(a, k, i - 1, cur % k)
       IN [q |-> Append(rest.q, cur \div k), r |-> rest.r]

\* quotient q (a natural) and remainder r (an integer) of a by k, 0 < k <= 2^15
NatDivSmall(a, k) ==
  LET d == NatDivSmallRec(a, k, Len(a), 0) IN [q |-> NatTrim(d.q), r |-> d.r]

SmallBitLen(x) == Cardinality({j \in 0..15 : 2^j <= x})
NatBitLen(a) == IF a = << >> THEN 0 ELSE 16 * (Len(a) - 1) + SmallBitLen(a[Len(a)])
\* bit j of a, bit 0 the least significant
NatBit(a, j) == (Digit(a, j \div 16 + 1) \div 2^(j % 16)) % 2
\* a * 2^k
NatShl(a, k) ==
  IF a = << >> THEN a ELSE [i \in 1..(k \div 16) |-> 0] \o NatMulSmall(a, 2^(k % 16))
\* a \div 2^k
NatShr(a, k) ==
  IF k \div 16 >= Len(a) THEN << >>
  ELSE NatDivSmall(SubSeq(a, k \div 16 + 1, Len(a)), 2^(k % 16)).q
\* the low k bits of a are all 0
NatLowZero(a, k) == NatShl(NatShr(a, k), k) = a
\* 2 * a + bit
NatDouble(a, bit) ==
  LET d == NatMulSmall(a, 2)
  IN IF bit = 0 THEN d ELSE IF d = << >> THEN <<1>> ELSE [d EXCEPT ![1] = @ + 1]

\* one step of the long division of a by b, at bit j of a: the quotient q
\* and the remainder r of the bits above j become those of the bits from j
NatDivStep(a, b, j, st) ==
  LET r2 == NatDouble(st.r, NatBit(a, j))
  IN IF NatLess(r2, b) THEN [q |-> NatDouble(st.q, 0), r |-> r2]
                       ELSE [q |-> NatDouble(st.q, 1), r |-> NatSub(r2, b)]

\* the steps at bits hi down to lo, the upper half of the bits first (its
\* result is computed before the lower half starts)
RECURSIVE NatDivBits(_, _, _, _, _)
NatDivBits(a, b, hi, lo, st) ==
  IF hi = lo THEN NatDivStep(a, b, hi, st)
  ELSE LET mid == (hi + lo + 1) \div 2
           upper == NatDivBits(a, b, hi, mid, st)
       IN IF Len(upper.q) + Len(upper.r) >= 0 THEN NatDivBits(a, b, mid - 1, lo, upper)
                                            ELSE upper

\* quotient and remainder (both naturals) of a by b # 0
NatDivMod(a, b) ==
  IF a = << >> THEN [q |-> << >>, r |-> << >>]
  ELSE NatDivBits(a, b, NatBitLen(a) - 1, 0, [q |-> << >>, r |-> << >>])

\* a * x for a limb x, by its two bytes
NatMulLimb(a, x) ==
  NatAdd(NatMulSmall(NatMulSmall(a, x \div 256), 256), NatMulSmall(a, x % 256))

\* a * b, by the limbs i.. of b
RECURSIVE NatMulRec(_, _, _)
NatMulRec(a, b, i) ==
  IF i > Len(b) THEN << >>
  ELSE NatAdd(NatShl(NatMulLimb(a, b[i]), 16 * (i - 1)), NatMulRec(a, b, i + 1))
NatMul(a, b) == NatMulRec(a, b, 1)

(***************************************************************************)
(* int64 (and time.Duration, an int64 of nanoseconds): the 64-bit two's    *)
(* complement pattern, as a natural below 2^64.                            *)
(***************************************************************************)
Two63 == NatShl(<<1>>, 63)
Two64 == NatShl(<<1>>, 64)
\* the low 64 bits
I64Wrap(n) == NatTrim(SubSeq(n, 1, Min(Len(n), 4)))
I64IsNeg(u) == ~NatLess(u, Two63)
\* -u
I64Neg(u) == IF u = << >> THEN u ELSE NatSub(Two64, u)
\* |u| as a natural
I64Abs(u) == IF I64IsNeg(u) THEN NatSub(Two64, u) ELSE u
\* u + v, wrapping
I64Add(u, v) == I64Wrap(NatAdd(u, v))
\* the int64 of a small integer
I64OfInt(k) == IF k >= 0 THEN NatOfInt(k) ELSE NatSub(Two64, NatOfInt(-k))
\* u / n for an int64 n > 0 that is small: Go truncates towards zero
I64Quo(u, n) ==
  IF I64IsNeg(u) THEN I64Neg(NatDivSmall(I64Abs(u), n).q) ELSE NatDivSmall(u, n).q

\* 10^9 as a natural: the nanoseconds of a second
Billion == NatMulSmall(NatOfInt(1000000), 1000)
\* time.Minute
MinuteNs == NatMulSmall(Billion, 60)

(***************************************************************************)
(* float64: sign, class and, for a finite value, the odd natural m and the *)
(* exponent e with |value| = m * 2^e (m empty and e = 0 for zero).         *)
(* Results are rounded to 53 significant bits, ties to even; the exponent  *)
(* range (overflow to infinity, subnormals) is not modelled, the values    *)
(* here stay far inside it.                                                *)
(***************************************************************************)
FZero == [cls |-> "finite", neg |-> FALSE, m |-> << >>, e |-> 0]
FInf == [cls |-> "inf", neg |-> FALSE, m |-> << >>, e |-> 0]
FNaN == [cls |-> "nan", neg |-> FALSE, m |-> << >>, e |-> 0]

\* the number of trailing zero bits of a # 0
NatTrailingZeros(a) ==
  LET i == CHOOSE x \in 1..Len(a) : a[x] # 0 /\ \A y \in 1..(x - 1) : a[y] = 0
  IN 16 * (i - 1) + Cardinality({j \in 1..16 : a[i] % 2^j = 0})

FCanon(m, e) ==
  IF m = << >> THEN FZero
  ELSE [cls |-> "finite", neg |-> FALSE,
        m |-> NatShr(m, NatTrailingZeros(m)), e |-> e + NatTrailingZeros(m)]

\* the float64 nearest to (m + f) * 2^e, where 0 <= f < 1 and sticky says f # 0
\* (m has at least 55 bits whenever sticky)
FRound(m, e, sticky) ==
  LET k == NatBitLen(m) - 53
  IN IF k <= 0 THEN FCanon(m, e)
     ELSE LET q == NatShr(m, k)
              up == /\ NatBit(m, k - 1) = 1
                    /\ (sticky \/ ~NatLowZero(m, k - 1) \/ NatBit(q, 0) = 1)
          IN FCanon(IF up THEN NatAdd(q, <<1>>) ELSE q, e + k)

\* float64(n) for a natural n
FromNat(n) == FRound(n, 0, FALSE)
FNeg(x) == [x EXCEPT !.neg = ~@]

\* x / y for x, y >= 0
FDiv(x, y) ==
  IF x.cls # "finite" \/ y.cls # "finite" THEN FNaN
  ELSE IF y.m = << >> THEN (IF x.m = << >> THEN FNaN ELSE FInf)
  ELSE IF x.m = << >> THEN FZero
  ELSE LET s == Max(0, 55 + NatBitLen(y.m) - NatBitLen(x.m))
           d == NatDivMod(NatShl(x.m, s), y.m)
       IN FRound(d.q, x.e - y.e - s, d.r # << >>)

\* x * y for x, y >= 0
FMul(x, y) ==
  IF x.cls = "nan" \/ y.cls = "nan" THEN FNaN
  ELSE IF x.cls = "inf" \/ y.cls = "inf"
    THEN (IF (x.cls = "finite" /\ x.m = << >>) \/ (y.cls = "finite" /\ y.m = << >>)
            THEN FNaN ELSE FInf)
  ELSE FRound(NatMul(x.m, y.m), x.e + y.e, FALSE)

\* x + y for finite x, y >= 0
FAdd(x, y) ==
  LET e == Min(x.e, y.e)
  IN FRound(NatAdd(NatShl(x.m, x.e - e), NatShl(y.m, y.e - e)), e, FALSE)

\* |x| < |y| for finite x, y
FMagLess(x, y) ==
  LET e == Min(x.e, y.e)
  IN NatLess(NatShl(x.m, x.e - e), NatShl(y.m, y.e - e))

\* x < y for finite x, y
FLess(x, y) ==
  IF x.neg # y.neg THEN x.neg /\ (x.m # << >> \/ y.m # << >>)
  ELSE IF x.neg THEN FMagLess(y, x) ELSE FMagLess(x, y)

(***************************************************************************)
(* time.Time: an instant, as seconds and nanoseconds within the second.    *)
(***************************************************************************)
\* t.Before(u)
Before(t, u) == t.sec < u.sec \/ (t.sec = u.sec /\ t.nsec < u.nsec)

\* t.Sub(u), a Duration; the instants here are less than 2^31 seconds apart,
\* the saturation of Sub at the ends of the Duration range is not modelled
Sub(t, u) ==
  LET ds == t.sec - u.sec
      whole == NatMul(NatOfInt(IF ds < 0 THEN -ds ELSE ds), Billion)
  IN I64Add(IF ds < 0 THEN I64Neg(whole) ELSE whole, I64OfInt(t.nsec - u.nsec))

\* d.Minutes(): float64(d / Minute) + float64(d % Minute) / (60 * 1e9)
Minutes(d) ==
  LET dm == NatDivMod(I64Abs(d), MinuteNs)
      x == FAdd(FromNat(dm.q), FDiv(FromNat(dm.r), FromNat(MinuteNs)))
  IN IF I64IsNeg(d) THEN FNeg(x) ELSE x

(***************************************************************************)
(* calculateUptime                                                         *)
(***************************************************************************)
F1 == FromNat(NatOfInt(1))
F100 == FromNat(NatOfInt(100))

\* x put into the sorted sequence s, after the elements that are not after it
SortInsert(s, x) ==
  LET k == Cardinality({i \in 1..Len(s) : ~Before(x, s[i])})
  IN SubSeq(s, 1, k) \o <<x>> \o SubSeq(s, k + 1, Len(s))

RECURSIVE SortSlice(_)
\* sort.Slice(s, func(i, j) { return s[i].Before(s[j]) })
SortSlice(s) ==
  IF s = << >> THEN s ELSE SortInsert(SortSlice(SubSeq(s, 1, Len(s) - 1)), s[Len(s)])

\* mutant of SortedCopy: the copy is not sorted
UnsortedCopy(heartbeats) == heartbeats

\* sortedHeartbeats: make, copy, sort.Slice
SortedCopy(heartbeats) == SortSlice(heartbeats)

\* mutant of SubMinute: no special case for a span below one minute
NeverSubMinute(minutes) == FALSE

\* minutes < 1.0
SubMinute(minutes) == FLess(minutes, F1)

\* mutant of UptimeRatio: the percentage is capped at 100
UptimeRatioCapped(numHeartbeats, minutes) ==
  LET uptime == FMul(FDiv(FromNat(NatOfInt(numHeartbeats)), minutes), F100)
  IN IF uptime.cls = "finite" /\ FLess(F100, uptime) THEN F100 ELSE uptime

\* (numHeartbeats / minutes) * 100.0
UptimeRatio(numHeartbeats, minutes) ==
  FMul(FDiv(FromNat(NatOfInt(numHeartbeats)), minutes), F100)

\* calculateUptime for two or more heartbeats
UptimeOfMany(heartbeats) ==
  LET sortedHeartbeats == SortedCopy(heartbeats)
      first == sortedHeartbeats[1]
      last == sortedHeartbeats[Len(sortedHeartbeats)]
      duration == Sub(last, first)
      minutes == Minutes(duration)
  IN IF SubMinute(minutes) THEN F100 ELSE UptimeRatio(Len(heartbeats), minutes)

\* mutant of calculateUptime: a single heartbeat counts as no data
calculateUptimeNoSingle(heartbeats) ==
  IF Len(heartbeats) <= 1 THEN FZero ELSE UptimeOfMany(heartbeats)

calculateUptime(heartbeats) ==
  IF Len(heartbeats) = 0 THEN FZero
  ELSE IF Len(heartbeats) = 1 THEN F100
  ELSE UptimeOfMany(heartbeats)

\* s[i] with the 0-based index i out of range panics
IndexPanics(s, i) == i < 0 \/ i >= Len(s)

\* mutant of UptimeIndexes: the lengths 0 and 1 are not returned early
UptimeIndexesAlways(heartbeats) == TRUE

\* the two early returns are passed: sortedHeartbeats is indexed
UptimeIndexes(heartbeats) == Len(heartbeats) # 0 /\ Len(heartbeats) # 1

\* calculateUptime panics: sortedHeartbeats[0] or
\* sortedHeartbeats[len(sortedHeartbeats)-1] is out of range
calculateUptimePanics(heartbeats) ==
  /\ UptimeIndexes(heartbeats)
  /\ \/ IndexPanics(SortedCopy(heartbeats), 0)
     \/ IndexPanics(SortedCopy(heartbeats), Len(SortedCopy(heartbeats)) - 1)

(***************************************************************************)
(* calculateAvgUploadTime.  A string is the sequence of its characters;    *)
(* an int64 is its two's complement, a natural below 2^64.                 *)
(***************************************************************************)
DecimalDigits == <<"0", "1", "2", "3", "4", "5", "6", "7", "8", "9">>
\* byte(digit) + '0'
DigitChar(d) == DecimalDigits[d + 1]

\* the loop of fmtFrac: prec digits of v, the trailing zeros omitted
RECURSIVE FmtFracLoop(_, _, _, _)
FmtFracLoop(buf, v, prec, print) ==
  IF prec = 0 THEN [buf |-> buf, v |-> v, print |-> print]
  ELSE LET d == NatDivSmall(v, 10)
           p == print \/ d.r # 0
       IN FmtFracLoop(IF p THEN <<DigitChar(d.r)>> \o buf ELSE buf, d.q, prec - 1, p)

\* mutant of fmtFrac: the trailing zeros and the decimal point are kept
fmtFracPadded(buf, v, prec) ==
  LET r == FmtFracLoop(buf, v, prec, TRUE)
  IN [buf |-> IF prec > 0 THEN <<".">> \o r.buf ELSE r.buf, v |-> r.v]

\* fmtFrac(buf, v, prec): the fraction v / 10^prec put before buf, with the
\* decimal point unless the fraction is 0; v / 10^prec is returned as v
fmtFrac(buf, v, prec) ==
  LET r == FmtFracLoop(buf, v, prec, FALSE)
  IN [buf |-> IF r.print THEN <<".">> \o r.buf ELSE r.buf, v |-> r.v]

\* the loop of fmtInt, for v > 0
RECURSIVE FmtIntLoop(_, _)
FmtIntLoop(buf, v) ==
  IF v = << >> THEN buf
  ELSE LET d == NatDivSmall(v, 10) IN FmtIntLoop(<<DigitChar(d.r)>> \o buf, d.q)

\* fmtInt(buf, v): v in decimal put before buf
fmtInt(buf, v) == IF v = << >> THEN <<"0">> \o buf ELSE FmtIntLoop(buf, v)

\* Duration.format for 0 < u < Second: the largest unit not above u
FormatSubSecond(u) ==
  LET unit == IF NatLess(u, NatOfInt(1000)) THEN [prec |-> 0, buf |-> <<"n", "s">>]
              ELSE IF NatLess(u, NatOfInt(1000000)) THEN [prec |-> 3, buf |-> <<"µ", "s">>]
              ELSE [prec |-> 6, buf |-> <<"m", "s">>]
      f == fmtFrac(unit.buf, u, unit.prec)
  IN fmtInt(f.buf, f.v)

\* Duration.format for u >= Second: seconds with their fraction, minutes
\* and hours before them when they are not 0
FormatSeconds(u) ==
  LET f == fmtFrac(<<"s">>, u, 9)
      sec == NatDivSmall(f.v, 60)
      min == NatDivSmall(sec.q, 60)
      s1 == fmtInt(f.buf, NatOfInt(sec.r))
      s2 == fmtInt(<<"m">> \o s1, NatOfInt(min.r))
      s3 == fmtInt(<<"h">> \o s2, min.q)
  IN IF sec.q = << >> THEN s1 ELSE IF min.q = << >> THEN s2 ELSE s3

\* d.String() of the time.Duration d
DurationString(d) ==
  LET u == I64Abs(d)
      w == IF u = << >> THEN <<"0", "s">>
           ELSE IF NatLess(u, Billion) THEN FormatSubSecond(u)
           ELSE FormatSeconds(u)
  IN IF I64IsNeg(d) THEN <<"-">> \o w ELSE w

\* var sum int64; for _, t := range uploadTimes { sum += t }
RECURSIVE SumUploadTimes(_)
SumUploadTimes(uploadTimes) ==
  IF uploadTimes = << >> THEN << >>
  ELSE I64Add(SumUploadTimes(SubSeq(uploadTimes, 1, Len(uploadTimes) - 1)),
              uploadTimes[Len(uploadTimes)])

calculateAvgUploadTime(uploadTimes) ==
  IF Len(uploadTimes) = 0 THEN <<"0", "s">>
  ELSE LET sum == SumUploadTimes(uploadTimes)
           avgNanos == I64Quo(sum, Len(uploadTimes))
       IN DurationString(avgNanos)

\* the early return is passed: sum is divided by int64(len(uploadTimes))
AvgDivides(uploadTimes) == Len(uploadTimes) # 0

\* calculateAvgUploadTime panics: integer divide by zero
calculateAvgUploadTimePanics(uploadTimes) ==
  AvgDivides(uploadTimes) /\ Len(uploadTimes) = 0

(***************************************************************************)
(* StatsSpec: the statistics functions applied to a slice.  The caller's   *)
(* slice is the array arrs[1] (no array for an empty slice), the argument  *)
(* its header loc[t].hdr, the result loc[t].out.                           *)
(***************************************************************************)
\* longest slice of the exhaustive inputs
MaxLen == 3

\* the goroutine that serves the request
StatsCaller == "t2"

Instant(s, n) == [sec |-> s, nsec |-> n]
\* instants around the one-minute span, in seconds and nanoseconds
StatTimes ==
  {Instant(0, 0), Instant(30, 0), Instant(59, 999999999), Instant(60, 0), Instant(61, 0),
   Instant(300, 0)}

SeqsUpTo(S, n) == UNION {[1..k -> S] : k \in 0..n}

\* the heartbeats of the repository's tests, minute by minute from baseTime
UptimeVectors ==
  {[i \in 1..5 |-> Instant(60 * (i - 1), 0)],
   <<Instant(0, 0), Instant(60, 0), Instant(300, 0)>>,
   <<Instant(180, 0), Instant(0, 0), Instant(60, 0), Instant(120, 0)>>,
   [i \in 1..10 |-> Instant(60 * (i - 1), 0)],
   [i \in 1..6 |-> Instant(120 * (i - 1), 0)]}

HeartbeatInputs == SeqsUpTo(StatTimes, MaxLen) \cup UptimeVectors

\* a duration of s seconds and n nanoseconds as an int64
Nanos(s, n) == NatAdd(NatMul(NatOfInt(s), Billion), NatOfInt(n))
\* math.MaxInt64
MaxInt64 == NatSub(Two63, <<1>>)
\* upload times of every format of the result, the largest int64 and -1
StatDurations ==
  {<< >>, NatOfInt(1), NatOfInt(1500), NatOfInt(2000000), Nanos(5, 0), Nanos(10, 0),
   Nanos(3661, 0), MaxInt64, I64OfInt(-1)}

\* the upload times of the repository's tests
AvgVectors ==
  {<<Nanos(3, 0), Nanos(6, 0), Nanos(9, 0)>>,
   <<Nanos(60, 0), Nanos(120, 0), Nanos(180, 0)>>,
   <<NatOfInt(1000000), NatOfInt(2000000), NatOfInt(3000000)>>,
   <<NatOfInt(100000000), NatOfInt(200000000), NatOfInt(300000000)>>,
   <<Nanos(1800, 0), Nanos(3600, 0), Nanos(5400, 0)>>,
   <<NatOfInt(1000), NatOfInt(2000), NatOfInt(3000)>>,
   <<Nanos(2, 0), Nanos(3, 0)>>,
   [i \in 1..10 |-> Nanos(5, 0)]}

UploadTimeInputs == SeqsUpTo(StatDurations, MaxLen) \cup AvgVectors

StatsInputs(fn) == IF fn = "calculateUptime" THEN HeartbeatInputs ELSE UploadTimeInputs

StatsInit ==
  /\ devices = [d \in Ids |-> 0]
  /\ recs = << >>
  /\ smu = NoLock
  /\ calls = 0
  /\ loaded = FALSE
  /\ acked = NoAcks
  /\ \E fn \in {"calculateUptime", "calculateAvgUploadTime"} : \E in \in StatsInputs(fn) :
       /\ arrs = IF in = << >> THEN << >> ELSE <<in>>
       /\ pc = [t \in Threads |-> IF t = StatsCaller THEN "stat_call" ELSE "idle"]
       /\ loc = [t \in Threads |->
                   IF t = StatsCaller
                     THEN [NoLocals EXCEPT !.op = fn,
                                           !.hdr = IF in = << >> THEN NilSlice
                                                   ELSE [a |-> 1, n |-> Len(in)]]
                     ELSE NoLocals]

\* mutant of CalcUptime: the caller's slice is sorted in place
CalcUptimeInPlace(t) ==
  /\ pc[t] = "stat_call"
  /\ loc[t].op = "calculateUptime"
  /\ LET heartbeats == Elems(arrs, loc[t].hdr)
     IN /\ arrs' = IF Len(heartbeats) >= 2
                     THEN [arrs EXCEPT ![loc[t].hdr.a] =
                             [i \in 1..Len(@) |-> IF i <= Len(heartbeats)
                                                    THEN SortedCopy(heartbeats)[i] ELSE @[i]]]
                     ELSE arrs
        /\ loc' = [loc EXCEPT ![t].out = calculateUptime(heartbeats)]
  /\ pc' = [pc EXCEPT ![t] = "stat_done"]
  /\ UNCHANGED <<devices, recs, smu, calls, loaded, acked>>

\* uptime := calculateUptime(deviceData.Heartbeats); the sorted copy is a
\* new array; an index out of range ends the call in a panic
CalcUptime(t) ==
  /\ pc[t] = "stat_call"
  /\ loc[t].op = "calculateUptime"
  /\ LET heartbeats == Elems(arrs, loc[t].hdr)
     IN IF calculateUptimePanics(heartbeats)
          THEN /\ pc' = [pc EXCEPT ![t] = "stat_panic"]
               /\ UNCHANGED <<arrs, loc>>
          ELSE /\ arrs' = IF Len(heartbeats) >= 2 THEN Append(arrs, SortedCopy(heartbeats))
                                                  ELSE arrs
               /\ loc' = [loc EXCEPT ![t].out = calculateUptime(heartbeats)]
               /\ pc' = [pc EXCEPT ![t] = "stat_done"]
  /\ UNCHANGED <<devices, recs, smu, calls, loaded, acked>>

\* avgUploadTime := calculateAvgUploadTime(deviceData.UploadTimes)
CalcAvgUploadTime(t) ==
  /\ pc[t] = "stat_call"
  /\ loc[t].op = "calculateAvgUploadTime"
  /\ LET uploadTimes == Elems(arrs, loc[t].hdr)
     IN IF calculateAvgUploadTimePanics(uploadTimes)
          THEN /\ pc' = [pc EXCEPT ![t] = "stat_panic"]
               /\ loc' = loc
          ELSE /\ loc' = [loc EXCEPT ![t].out = calculateAvgUploadTime(uploadTimes)]
               /\ pc' = [pc EXCEPT ![t] = "stat_done"]
  /\ UNCHANGED <<devices, recs, arrs, smu, calls, loaded, acked>>

StatsNext == \E t \in Threads : CalcUptime(t) \/ CalcAvgUploadTime(t)

StatsSpec == StatsInit /\ [][StatsNext]_vars

(***************************************************************************)
(* HandlerSpec: the three request handlers on the store that main() has    *)
(* loaded.  A goroutine serves one request at a time: loc[t].handler is    *)
(* the handler, loc[t].parses whether c.BodyParser accepts the body,       *)
(* loc[t].val the value the body carries, loc[t].status and loc[t].msg the *)
(* response.  Heartbeats are instants and upload times int64 values, as    *)
(* the statistics functions take them.                                     *)
(***************************************************************************)
\* requests in one behaviour
MaxRequests == 3

\* sent_at of the heartbeats posted
ReqTimes == {Instant(0, 0), Instant(240, 0)}
\* upload_time of the statistics posted
ReqUploadTimes == {Nanos(3, 0)}

\* the response is written: c.Status(status).JSON(msg) or c.SendStatus(status)
Respond(t, status, msg) ==
  /\ pc' = [pc EXCEPT ![t] = "responded"]
  /\ loc' = [loc EXCEPT ![t].status = status, ![t].msg = msg]

\* mutant of Receive: the body is not checked before the device is looked up
ReceiveUnchecked(t, h, d, parses, v) ==
  /\ loaded
  /\ pc[t] = "idle"
  /\ calls < MaxRequests
  /\ calls' = calls + 1
  /\ CanRLock(smu)
  /\ smu' = RLock(smu, t)
  /\ pc' = [pc EXCEPT ![t] = "ex_lookup"]
  /\ loc' = [loc EXCEPT ![t] = [NoLocals EXCEPT !.handler = h, !.op = "DeviceExists",
                                                 !.id = d, !.parses = parses, !.val = v]]
  /\ UNCHANGED <<heap, loaded, acked>>

\* the server listens once main() has loaded the devices; the handler h is
\* entered with the device_id d: c.BodyParser(&req)
\* answers 400 for a body it cannot parse; else h.store.DeviceExists is
\* called and takes s.mu.RLock()
Receive(t, h, d, parses, v) ==
  /\ loaded
  /\ pc[t] = "idle"
  /\ calls < MaxRequests
  /\ calls' = calls + 1
  /\ IF ~parses
       THEN /\ pc' = [pc EXCEPT ![t] = "responded"]
            /\ loc' = [loc EXCEPT ![t] = [NoLocals EXCEPT !.handler = h, !.id = d,
                                                           !.parses = FALSE, !.status = 400,
                                                           !.msg = "Invalid request body"]]
            /\ smu' = smu
       ELSE /\ CanRLock(smu)
            /\ smu' = RLock(smu, t)
            /\ pc' = [pc EXCEPT ![t] = "ex_lookup"]
            /\ loc' = [loc EXCEPT ![t] = [NoLocals EXCEPT !.handler = h, !.op = "DeviceExists",
                                                           !.id = d, !.val = v]]
  /\ UNCHANGED <<heap, loaded, acked>>

\* the store method a handler calls once the device exists
StoreCall(h) ==
  CASE h = "PostHeartbeat" -> "AddHeartbeat"
    [] h = "PostStats" -> "AddUploadTime"
    [] OTHER -> "GetDeviceData"

\* mutant of AfterExists: the store method is called whatever DeviceExists
\* returned
AfterExistsUnchecked(t) ==
  /\ pc[t] = "done"
  /\ loc[t].op = "DeviceExists"
  /\ loc[t].handler # "none"
  /\ CanRLock(smu)
  /\ smu' = RLock(smu, t)
  /\ pc' = [pc EXCEPT ![t] = IF loc[t].handler = "GetStats" THEN "get_lookup"
                                                             ELSE "add_lookup"]
  /\ loc' = [loc EXCEPT ![t].op = StoreCall(loc[t].handler), ![t].exists = FALSE]
  /\ UNCHANGED <<heap, calls, loaded, acked>>

\* if !h.store.DeviceExists(deviceID): 404; else the store method is called
\* and takes s.mu.RLock()
AfterExists(t) ==
  /\ pc[t] = "done"
  /\ loc[t].op = "DeviceExists"
  /\ loc[t].handler # "none"
  /\ IF ~loc[t].exists
       THEN /\ Respond(t, 404, "Device not found")
            /\ smu' = smu
       ELSE /\ CanRLock(smu)
            /\ smu' = RLock(smu, t)
            /\ pc' = [pc EXCEPT ![t] = IF loc[t].handler = "GetStats" THEN "get_lookup"
                                                                       ELSE "add_lookup"]
            /\ loc' = [loc EXCEPT ![t].op = StoreCall(loc[t].handler), ![t].exists = FALSE]
  /\ UNCHANGED <<heap, calls, loaded, acked>>

\* AddHeartbeat or AddUploadTime has returned: 500 for an error, else 204
AfterAppend(t) ==
  /\ pc[t] = "done"
  /\ loc[t].op \in {"AddHeartbeat", "AddUploadTime"}
  /\ loc[t].handler # "none"
  /\ IF loc[t].err # ""
       THEN Respond(t, 500, "Failed to store")
       ELSE Respond(t, 204, "")
  /\ UNCHANGED <<heap, smu, calls, loaded, acked>>

\* mutant of AfterSnapshot: 204 as soon as one of the two sequences is empty
AfterSnapshotEither(t) ==
  /\ pc[t] = "done"
  /\ loc[t].op = "GetDeviceData"
  /\ loc[t].handler = "GetStats"
  /\ IF loc[t].err # ""
       THEN Respond(t, 500, "Failed to retrieve device data")
       ELSE IF recs[loc[t].res].Heartbeats.n = 0 \/ recs[loc[t].res].UploadTimes.n = 0
         THEN Respond(t, 204, "")
         ELSE /\ pc' = [pc EXCEPT ![t] = "stat_call"]
              /\ loc' = [loc EXCEPT ![t].op = "calculateUptime",
                                    ![t].hdr = recs[loc[t].res].Heartbeats]
  /\ UNCHANGED <<heap, smu, calls, loaded, acked>>

\* GetDeviceData has returned: 500 for an error, 204 when the snapshot
\* holds no sample, else calculateUptime(deviceData.Heartbeats) is called
AfterSnapshot(t) ==
  /\ pc[t] = "done"
  /\ loc[t].op = "GetDeviceData"
  /\ loc[t].handler = "GetStats"
  /\ IF loc[t].err # ""
       THEN Respond(t, 500, "Failed to retrieve device data")
       ELSE IF recs[loc[t].res].Heartbeats.n = 0 /\ recs[loc[t].res].UploadTimes.n = 0
         THEN Respond(t, 204, "")
         ELSE /\ pc' = [pc EXCEPT ![t] = "stat_call"]
              /\ loc' = [loc EXCEPT ![t].op = "calculateUptime",
                                    ![t].hdr = recs[loc[t].res].Heartbeats]
  /\ UNCHANGED <<heap, smu, calls, loaded, acked>>

\* mutant of AfterUptime: the upload times are read from the store's record
\* again instead of from the snapshot
AfterUptimeLive(t) ==
  /\ pc[t] = "stat_done"
  /\ loc[t].op = "calculateUptime"
  /\ loc[t].handler = "GetStats"
  /\ pc' = [pc EXCEPT ![t] = "stat_call"]
  /\ loc' = [loc EXCEPT ![t].uptime = loc[t].out,
                        ![t].op = "calculateAvgUploadTime",
                        ![t].hdr = recs[devices[loc[t].id]].UploadTimes]
  /\ UNCHANGED <<heap, smu, calls, loaded, acked>>

\* uptime is assigned; calculateAvgUploadTime(deviceData.UploadTimes) is called
AfterUptime(t) ==
  /\ pc[t] = "stat_done"
  /\ loc[t].op = "calculateUptime"
  /\ loc[t].handler = "GetStats"
  /\ pc' = [pc EXCEPT ![t] = "stat_call"]
  /\ loc' = [loc EXCEPT ![t].uptime = loc[t].out,
                        ![t].op = "calculateAvgUploadTime",
                        ![t].hdr = recs[loc[t].res].UploadTimes]
  /\ UNCHANGED <<heap, smu, calls, loaded, acked>>

\* avgUploadTime is assigned; 200 with the two statistics
AfterAvgUploadTime(t) ==
  /\ pc[t] = "stat_done"
  /\ loc[t].op = "calculateAvgUploadTime"
  /\ loc[t].handler = "GetStats"
  /\ pc' = [pc EXCEPT ![t] = "responded"]
  /\ loc' = [loc EXCEPT ![t].avg = loc[t].out, ![t].status = 200]
  /\ UNCHANGED <<heap, smu, calls, loaded, acked>>

\* the request is over: the response is sent, a panic having been turned
\* into a 500 by the recover middleware first
Finish(t) ==
  /\ pc[t] \in {"responded", "panicked", "stat_panic"}
  /\ loc[t].handler # "none"
  /\ IF pc[t] = "responded"
       THEN /\ pc' = [pc EXCEPT ![t] = "idle"]
            /\ loc' = [loc EXCEPT ![t] = NoLocals]
       ELSE Respond(t, 500, "panic")
  /\ UNCHANGED <<heap, smu, calls, loaded, acked>>

\* the steps inside the store's methods, their calls apart
StoreSteps(t) ==
  \/ ExistsLookup(t)
  \/ ExistsReturn(t)
  \/ \E op \in {"AddHeartbeat", "AddUploadTime"} :
       \/ AppendLookup(t, op)
       \/ AppendRUnlock(t, op)
       \/ AppendLock(t, op)
       \/ AppendAcquire(t, op)
       \/ AppendRead(t, op)
       \/ AppendWrite(t, op)
       \/ AppendReturn(t, op)
  \/ GetLookup(t)
  \/ GetRUnlock(t)
  \/ GetDevRLock(t)
  \/ GetMake(t)
  \/ GetCopyHeartbeats(t)
  \/ GetCopyUploadTimes(t)
  \/ GetReturn(t)

PostHeartbeat(t) ==
  \E d \in QueryIds :
    \/ \E v \in ReqTimes : Receive(t, "PostHeartbeat", d, TRUE, v)
    \/ Receive(t, "PostHeartbeat", d, FALSE, 0)

PostStats(t) ==
  \E d \in QueryIds :
    \/ \E v \in ReqUploadTimes : Receive(t, "PostStats", d, TRUE, v)
    \/ Receive(t, "PostStats", d, FALSE, 0)

GetStats(t) ==
  \/ \E d \in QueryIds : Receive(t, "GetStats", d, TRUE, 0)
  \/ AfterSnapshot(t)
  \/ CalcUptime(t)
  \/ AfterUptime(t)
  \/ CalcAvgUploadTime(t)
  \/ AfterAvgUploadTime(t)

\* main() goes on to app.Listen: from here on the goroutine stands for one
\* that serves requests
Listen(t) ==
  /\ loaded
  /\ loc[t].op = "Load"
  /\ Return(t)

HandlerNext ==
  \E t \in Threads :
    \/ Boot(t)
    \/ Listen(t)
    \/ PostHeartbeat(t)
    \/ PostStats(t)
    \/ GetStats(t)
    \/ AfterExists(t)
    \/ AfterAppend(t)
    \/ StoreSteps(t)
    \/ Finish(t)

HandlerSpec == Init /\ [][HandlerNext]_vars

(***************************************************************************)
(* Properties                                                              *)
(***************************************************************************)
AddOps == {"AddHeartbeat", "AddUploadTime"}
IsPrefix(s, u) == Len(s) <= Len(u) /\ \A i \in 1..Len(s) : s[i] = u[i]
\* the elements of a sequence with their multiplicities
SeqBag(s) ==
  [v \in {s[i] : i \in 1..Len(s)} |-> Cardinality({i \in 1..Len(s) : s[i] = v})]
\* no AddHeartbeat or AddUploadTime call has started and not yet returned
NoAppendInFlight ==
  \A t \in Threads : loc[t].op \in AddOps => pc[t] = "done"
\* t stands at the return of a successful GetDeviceData, the copy complete
AtGetReturn(t) == pc[t] = "get_ret"

\* C1: no lost or duplicated appends.  Whenever every append call has
\* returned, each registered device's two sequences hold exactly the values
\* whose append returned nil, each as often as it was appended (so N*M
\* entries after N callers appended M values each), and so does a snapshot
\* GetDeviceData is about to return at that moment.
C1_NoLostAppends ==
  NoAppendInFlight =>
    /\ \A d \in Registered, F \in Fields :
         SeqBag(RecView(devices[d])[F]) = acked[d][F]
    /\ \A t \in Threads, F \in Fields :
         AtGetReturn(t) => SeqBag(RecView(loc[t].res)[F]) = acked[loc[t].id][F]

\* C1 witness: a snapshot taken after two appends to one sequence returned
C1_Witness ==
  /\ NoAppendInFlight
  /\ \E t \in Threads :
       /\ AtGetReturn(t)
       /\ Len(RecView(loc[t].res).Heartbeats) = 2
       /\ BagCardinality(acked[loc[t].id].Heartbeats) = 2

\* the backing arrays a DeviceData object refers to
ArraysOf(r) == {recs[r][F].a : F \in Fields} \ {0}
\* a step in which a caller changes its snapshot: no goroutine moves
CallerStep == pc' = pc /\ calls' # calls

\* C2: snapshot independence.  A snapshot handed to a caller is an object
\* of its own with backing arrays of its own (none shared with a registered
\* record); no step of the registry changes what it holds, and no change
\* the caller makes to it (overwrite, truncate, append) changes what the
\* registry holds, hence what a later GetDeviceData returns.
C2_SnapshotIndependent ==
  [][/\ \A t \in Threads : HoldsSnapshot(t)' =>
          \A d \in Registered' :
            /\ loc'[t].res # devices'[d]
            /\ ArraysOf(loc[t].res)' \cap ArraysOf(devices[d])' = {}
     /\ \A t \in Threads : (HoldsSnapshot(t) /\ HoldsSnapshot(t)' /\ ~CallerStep) =>
          RecView(loc[t].res)' = RecView(loc[t].res)
     /\ CallerStep => RegistryView' = RegistryView]_vars

\* C2 witness: the caller has overwritten the first heartbeat of its
\* snapshot and the registry still holds the original
C2_Witness ==
  \E t \in Threads :
    /\ HoldsSnapshot(t)
    /\ loc[t].id \in Registered
    /\ Len(RecView(loc[t].res).Heartbeats) > 0
    /\ RecView(loc[t].res).Heartbeats[1] \in CallerVals
    /\ Len(RecView(devices[loc[t].id]).Heartbeats) > 0
    /\ RecView(devices[loc[t].id]).Heartbeats[1] \in Times

\* C3: snapshot atomicity.  When GetDeviceData is about to return, still
\* holding the device's read lock, its copy equals both sequences of the
\* record as they stand in that one state, a state inside the call; no copy
\* is cut short (copySlice never runs past its destination).
C3_SnapshotAtomic ==
  \A t \in Threads :
    /\ pc[t] \notin {"get_panic", "panicked"}
    /\ AtGetReturn(t) => RecView(loc[t].res) = RecView(loc[t].dev)

\* C3 witness: a complete non-empty copy while an append to the same record
\* waits for the lock
C3_Witness ==
  \E t \in Threads, u \in Threads :
    /\ AtGetReturn(t)
    /\ Len(RecView(loc[t].res).Heartbeats) > 0
    /\ pc[u] = "add_wait"
    /\ loc[u].dev = loc[t].dev

\* C4: an append to an unregistered identifier fails without side effect.
\* Every step of an AddHeartbeat or AddUploadTime call whose identifier is
\* not registered leaves the registered identifiers and all sequences as
\* they were, and the call returns "device not found".
C4_AppendNotFound ==
  [][\A t \in Threads :
       (pc'[t] # pc[t] /\ loc'[t].op \in AddOps /\ loc'[t].id \notin Registered) =>
         /\ RegistryView' = RegistryView
         /\ pc'[t] = "done" => loc'[t].err = "device not found"]_vars

\* C4 witness: an append to an unregistered identifier has returned its
\* error while another identifier is registered and holds a sample
C4_Witness ==
  \E t \in Threads :
    /\ pc[t] = "done"
    /\ loc[t].op \in AddOps
    /\ loc[t].id \notin Registered
    /\ loc[t].err = "device not found"
    /\ \E d \in Registered : Len(RecView(devices[d]).Heartbeats) > 0

\* the sequences of registered devices that a step changes
Changed ==
  {x \in Registered \X Fields :
     x[1] \notin Registered' \/ RegistryView'[x[1]][x[2]] # RegistryView[x[1]][x[2]]}

\* C5: append-only sequences.  After the bulk load every step keeps each
\* sequence of each registered device as a prefix of what it becomes,
\* changes at most one sequence, and the write of a successful append
\* extends its sequence by exactly the appended value at the end.
C5_AppendOnly ==
  [][loaded =>
       /\ heap' # heap =>
            /\ \A d \in Registered, F \in Fields :
                 d \in Registered' /\ IsPrefix(RegistryView[d][F], RegistryView'[d][F])
            /\ Cardinality(Changed) <= 1
       /\ \A t \in Threads :
            (pc[t] = "add_write" /\ pc'[t] = "add_ret") =>
              RegistryView'[loc[t].id][FieldOf(loc[t].op)] =
                Append(RegistryView[loc[t].id][FieldOf(loc[t].op)], loc[t].val)]_vars

\* C5 witness: a sequence that grew twice, the later value the smaller
C5_Witness ==
  /\ loaded
  /\ \E d \in Registered :
       /\ Len(RecView(devices[d]).Heartbeats) = 2
       /\ RecView(devices[d]).Heartbeats[2] < RecView(devices[d]).Heartbeats[1]

\* C6: a device record is immutable once created.  No step, a further
\* LoadDevicesFromCSV included, unregisters a registered identifier or
\* takes away samples it has accumulated: what GetDeviceData returned for
\* it before is a prefix of what it returns after.
C6_RecordImmutable ==
  [][\A d \in Registered, F \in Fields :
       d \in Registered' /\ IsPrefix(RegistryView[d][F], RegistryView'[d][F])]_vars

\* C7: existence is stable.  Once the bulk load has returned, no step
\* changes the set of registered identifiers, and every DeviceExists call
\* returns whether its identifier is in that set.
C7_ExistenceStable ==
  [][loaded =>
       /\ Registered' = Registered
       /\ \A t \in Threads :
            (pc'[t] = "done" /\ loc'[t].op = "DeviceExists") =>
              loc'[t].exists = (loc'[t].id \in Registered)]_vars

\* C7 witness: with a sample stored for a registered identifier,
\* DeviceExists has answered false for an unregistered one
C7_Witness ==
  /\ loaded
  /\ \E d \in Registered : Len(RecView(devices[d]).Heartbeats) > 0
  /\ \E t \in Threads :
       /\ pc[t] = "done"
       /\ loc[t].op = "DeviceExists"
       /\ loc[t].id \in QueryIds
       /\ ~loc[t].exists

\* the identifiers a source names: the non-empty first fields of its
\* records after the first
ExpectedIds(f) ==
  {Records(f)[i][1] : i \in {j \in 2..Len(Records(f)) : Len(Records(f)[j]) > 0}} \ {""}

\* a LoadDevicesFromCSV call of t has returned nil and t still holds the result
LoadSucceeded(t) == pc[t] = "done" /\ loc[t].op = "Load" /\ loc[t].err = ""

\* C8: after a successful load into a fresh store the registered identifiers
\* are exactly the distinct non-empty first fields of the records after the
\* header; the header and the empty string are not registered, and
\* DeviceExists answers accordingly.
C8_LoadRegisters ==
  \A t \in Threads : LoadSucceeded(t) =>
    /\ Registered = ExpectedIds(loc[t].file)
    /\ "" \notin Registered
    /\ \A u \in Threads :
         (pc[u] = "done" /\ loc[u].op = "DeviceExists") =>
           loc[u].exists = (loc[u].id \in ExpectedIds(loc[t].file))

\* C8 witness: source B (an empty identifier, an empty record, a second
\* field, a duplicate) is loaded and DeviceExists("") has answered false
C8_Witness ==
  \E t \in Threads, u \in Threads :
    /\ LoadSucceeded(t)
    /\ loc[t].file = "B"
    /\ Registered = {"d1", "d2"}
    /\ pc[u] = "done"
    /\ loc[u].op = "DeviceExists"
    /\ loc[u].id = ""
    /\ ~loc[u].exists

\* no append to d has written its value or returned
Untouched(d) ==
  /\ \A F \in Fields : acked[d][F] = EmptyBag
  /\ \A t \in Threads :
       ~(loc[t].op \in AddOps /\ loc[t].id = d /\ pc[t] \in {"add_ret", "done"})

\* C9: a registered identifier starts with two empty sequences.  Until an
\* append to it has written, both its sequences have length 0 and so have
\* both sequences of a snapshot GetDeviceData is about to return for it.
C9_StartsEmpty ==
  \A d \in Registered : Untouched(d) =>
    /\ \A F \in Fields : Len(RecView(devices[d])[F]) = 0
    /\ \A t \in Threads, F \in Fields :
         (AtGetReturn(t) /\ loc[t].id = d) => Len(RecView(loc[t].res)[F]) = 0

\* C9 witness: GetDeviceData is about to return for a registered identifier
\* nothing was appended to
C9_Witness ==
  \E t \in Threads :
    /\ AtGetReturn(t)
    /\ loc[t].id \in Registered
    /\ Untouched(loc[t].id)
    /\ RecView(loc[t].res) = [Heartbeats |-> << >>, UploadTimes |-> << >>]

\* C10: a failing load leaves the registry intact.  Every step of a
\* LoadDevicesFromCSV call whose source cannot be opened or parsed leaves
\* the registered identifiers, all sequences and the store lock as they
\* were; the call returns an error and registers nothing.
C10_LoadFailureIntact ==
  [][\A t \in Threads :
       (pc'[t] # pc[t] /\ loc'[t].op = "Load" /\ ~Parses(loc'[t].file)) =>
         /\ RegistryView' = RegistryView
         /\ smu' = smu
         /\ pc'[t] \in {"load_read", "done"}
         /\ pc'[t] = "done" => loc'[t].err # ""]_vars

\* C10 witness: a load has failed to parse its source while a registered
\* device holds a sample, and the store lock is free
C10_Witness ==
  \E t \in Threads :
    /\ pc[t] = "done"
    /\ loc[t].op = "Load"
    /\ loc[t].err = "failed to read CSV file"
    /\ smu = NoLock
    /\ \E d \in Registered : Len(RecView(devices[d]).Heartbeats) > 0

\* a reader holds the store's read lock and is about to look its identifier up
AtLookup(t) == pc[t] \in {"ex_lookup", "add_lookup", "get_lookup"}

\* C11: load is atomic to readers.  Whenever a DeviceExists, AddHeartbeat,
\* AddUploadTime or GetDeviceData call is about to look its identifier up,
\* every LoadDevicesFromCSV call in progress or just returned has either
\* registered nothing yet (it has not passed s.mu.Lock) or has registered
\* every identifier of its source and released the lock; no lookup sees a
\* load that is part-way through its records.
C11_LoadAtomic ==
  \A t \in Threads, u \in Threads :
    (AtLookup(t) /\ loc[u].op = "Load") =>
      \/ pc[u] \in {"load_read", "load_lock", "load_wait"}
      \/ /\ pc[u] = "done"
         /\ loc[u].err = "" => ExpectedIds(loc[u].file) \subseteq Registered

\* C11 witness: a lookup is pending while a load of source B (two
\* identifiers) waits for the store lock, one identifier of B not registered
C11_Witness ==
  \E t \in Threads, u \in Threads :
    /\ AtLookup(t)
    /\ loc[u].op = "Load"
    /\ loc[u].file = "B"
    /\ pc[u] = "load_wait"
    /\ ~(ExpectedIds("B") \subseteq Registered)

\* C12: GetDeviceData for an unregistered identifier.  Every step of such a
\* call leaves the registered identifiers and all sequences as they were,
\* and the call returns "device not found" with a nil *DeviceData.
C12_GetNotFound ==
  [][\A t \in Threads :
       (pc'[t] # pc[t] /\ loc'[t].op = "GetDeviceData" /\ loc'[t].id \notin Registered) =>
         /\ RegistryView' = RegistryView
         /\ pc'[t] = "done" => (loc'[t].err = "device not found" /\ loc'[t].res = 0)]_vars

\* C12 witness: GetDeviceData has returned its error for an unregistered
\* identifier while a registered one holds a sample
C12_Witness ==
  \E t \in Threads :
    /\ pc[t] = "done"
    /\ loc[t].op = "GetDeviceData"
    /\ loc[t].id \notin Registered
    /\ loc[t].err = "device not found"
    /\ loc[t].res = 0
    /\ \E d \in Registered : Len(RecView(devices[d]).Heartbeats) > 0

\* some call is under way and one of the calls under way can take a step
DeadlockFree == (\E t \in Threads : InCall(t)) => \E t \in Threads : ENABLED Proceed(t)

\* C13: every call terminates and the registry cannot deadlock.  Under fair
\* scheduling every call that has started returns; the store lock, once a
\* writer holds or awaits it, becomes free again, so a call waiting to enter
\* s.mu.RLock gets in; and in no state is every call under way blocked.
C13_Terminates ==
  /\ \A t \in Threads : InCall(t) ~> (pc[t] = "done")
  /\ (smu.w # "none") ~> (smu.w = "none")
  /\ []DeadlockFree

\* C13 witness: an append waits for a device lock that another append to the
\* same device holds
C13_Witness ==
  \E t \in Threads, u \in Threads :
    /\ pc[t] = "add_lock"
    /\ pc[u] = "add_ret"
    /\ loc[u].dev = loc[t].dev
    /\ ~ENABLED Proceed(t)

\* t stands at a lock of a device record
AtDeviceLock(t) == pc[t] \in {"add_lock", "add_wait", "get_drlock"}
\* u holds, or has announced itself as writer of, the lock of record r
HoldsDeviceLock(u, r) == recs[r].mu.w = u \/ u \in recs[r].mu.r

\* C14: unrelated devices never contend.  In the serving phase no writer
\* holds or awaits the store lock, and an operation that cannot take its
\* step at a device lock waits at the lock of its own device's record, held
\* by an operation on that same device.
C14_NoContention ==
  loaded =>
    /\ smu.w = "none"
    /\ \A t \in Threads :
         (AtDeviceLock(t) /\ ~ENABLED Proceed(t)) =>
           /\ loc[t].dev = devices[loc[t].id]
           /\ \E u \in Threads \ {t} :
                HoldsDeviceLock(u, loc[t].dev) /\ loc[u].id = loc[t].id

\* C14 witness: two appends are inside the critical sections of two
\* different devices at once
C14_Witness ==
  \E t \in Threads, u \in Threads :
    /\ pc[t] = "add_ret"
    /\ pc[u] = "add_ret"
    /\ loc[t].id # loc[u].id

\* C15: every stored upload duration is non-negative, whatever the callers
\* pass to AddUploadTime.
C15_UploadNonNegative ==
  \A d \in Registered :
    \A i \in 1..Len(RecView(devices[d]).UploadTimes) :
      RecView(devices[d]).UploadTimes[i] >= 0

(***************************************************************************)
(* Properties of the statistics functions, stated with exact arithmetic on *)
(* naturals, apart from the float64 operations of the model.               *)
(***************************************************************************)
\* t has returned from calculateUptime
UptimeDone(t) == pc[t] = "stat_done" /\ loc[t].op = "calculateUptime"
\* the caller's slice
InputOf(t) == Elems(arrs, loc[t].hdr)
Range(s) == {s[i] : i \in 1..Len(s)}
Earliest(s) == CHOOSE x \in Range(s) : \A y \in Range(s) : ~Before(y, x)
Latest(s) == CHOOSE x \in Range(s) : \A y \in Range(s) : ~Before(x, y)
\* an instant in nanoseconds
InstantNs(x) == NatAdd(NatMul(NatOfInt(x.sec), Billion), NatOfInt(x.nsec))
\* latest minus earliest, in nanoseconds
SpanNs(s) == NatSub(InstantNs(Latest(s)), InstantNs(Earliest(s)))
\* the float64 x is exactly the integer k >= 0
FloatIsInt(x, k) ==
  x.cls = "finite" /\ ~x.neg /\ x.e >= 0 /\ NatShl(x.m, x.e) = NatOfInt(k)
\* the float64 x is greater than the integer k >= 0
FloatAboveInt(x, k) ==
  /\ x.cls = "finite"
  /\ ~x.neg
  /\ NatLess(NatShl(NatOfInt(k), Max(0, -x.e)), NatShl(x.m, Max(0, x.e)))
NatAbsDiff(a, b) == IF NatLess(a, b) THEN NatSub(b, a) ELSE NatSub(a, b)

\* s with its first two elements exchanged
SwapFirst(s) == [i \in 1..Len(s) |-> IF i = 1 THEN s[2] ELSE IF i = 2 THEN s[1] ELSE s[i]]
\* s with its first element moved to the end
Rotate(s) == [i \in 1..Len(s) |-> IF i = Len(s) THEN s[1] ELSE s[i + 1]]
\* the sequence of the length of s that holds its earliest element, its
\* latest element last, and the earliest again everywhere else
Extremes(s) == [i \in 1..Len(s) |-> IF i = Len(s) THEN Latest(s) ELSE Earliest(s)]

\* C16: uptime is invariant under permutation.  The result for a sequence
\* equals the result for the sequence with its first two elements exchanged
\* and for the sequence rotated by one (these two generate every
\* reordering, and the inputs are closed under reordering), and it equals
\* the result for the sequence of the same length that holds only the
\* earliest and the latest timestamp: the result depends on the count, the
\* earliest and the latest timestamp alone.
C16_PermutationInvariant ==
  \A t \in Threads : (UptimeDone(t) /\ Len(InputOf(t)) >= 2) =>
    /\ loc[t].out = calculateUptime(SwapFirst(InputOf(t)))
    /\ loc[t].out = calculateUptime(Rotate(InputOf(t)))
    /\ loc[t].out = calculateUptime(Extremes(InputOf(t)))

\* C16 witness: the uptime of three timestamps given latest first, over a
\* span of five minutes, is 60
C16_Witness ==
  \E t \in Threads :
    /\ UptimeDone(t)
    /\ InputOf(t) = <<Instant(300, 0), Instant(0, 0), Instant(60, 0)>>
    /\ FloatIsInt(loc[t].out, 60)

\* 100 * count * one minute, in nanoseconds: the exact uptime is this
\* number divided by the span in nanoseconds
ExactNumerator(s) == NatMul(NatOfInt(100 * Len(s)), MinuteNs)

\* the float64 x = m * 2^e is within the fraction 2^-50 of the rational
\* num / den:  |m * 2^e * den - num| * 2^50 <= num
FloatNearRatio(x, num, den) ==
  /\ x.cls = "finite"
  /\ ~x.neg
  /\ LET lhs == NatShl(NatMul(x.m, den), Max(0, x.e))
         rhs == NatShl(num, Max(0, -x.e))
     IN ~NatLess(rhs, NatShl(NatAbsDiff(lhs, rhs), 50))

\* C17: for two or more timestamps spanning at least one minute the uptime
\* is (count / span in minutes) * 100, not capped at 100.  The result is
\* within the fraction 2^-50 (float64 rounding) of the exact quotient; it is
\* the exact quotient whenever the span is a whole number of minutes that
\* divides 100 * count (5 over 4 minutes: 125, 3 over 5 minutes: 60, 2 over
\* 1 minute: 200); and it is above 100 whenever there are more timestamps
\* than minutes in the span.
C17_UptimeRatio ==
  \A t \in Threads :
    (UptimeDone(t) /\ Len(InputOf(t)) >= 2 /\ ~NatLess(SpanNs(InputOf(t)), MinuteNs)) =>
      LET s == InputOf(t)
          d == NatDivMod(ExactNumerator(s), SpanNs(s))
      IN /\ FloatNearRatio(loc[t].out, ExactNumerator(s), SpanNs(s))
         /\ (d.r = << >> /\ NatDivMod(SpanNs(s), MinuteNs).r = << >>) =>
              (loc[t].out.e >= 0 /\ NatShl(loc[t].out.m, Max(0, loc[t].out.e)) = d.q)
         /\ NatLess(SpanNs(s), NatMul(NatOfInt(Len(s)), MinuteNs)) =>
              FloatAboveInt(loc[t].out, 100)

\* C17 witness: five timestamps over four minutes give 125
C17_Witness ==
  \E t \in Threads :
    /\ UptimeDone(t)
    /\ InputOf(t) = [i \in 1..5 |-> Instant(60 * (i - 1), 0)]
    /\ FloatIsInt(loc[t].out, 125)

\* C18: for two or more timestamps spanning less than 60 seconds, a span of
\* 0 included, the uptime is exactly 100 (a number: nothing was divided by
\* a zero span).
C18_SubMinute ==
  \A t \in Threads :
    (UptimeDone(t) /\ Len(InputOf(t)) >= 2 /\ NatLess(SpanNs(InputOf(t)), MinuteNs)) =>
      FloatIsInt(loc[t].out, 100)

\* C18 witness: three equal timestamps give 100
C18_Witness ==
  \E t \in Threads :
    /\ UptimeDone(t)
    /\ Len(InputOf(t)) = 3
    /\ SpanNs(InputOf(t)) = << >>
    /\ FloatIsInt(loc[t].out, 100)

\* C19: the uptime of no timestamps is 0, the uptime of a single timestamp
\* is 100, whatever the timestamp.
C19_EmptyAndSingle ==
  \A t \in Threads : UptimeDone(t) =>
    /\ Len(InputOf(t)) = 0 => FloatIsInt(loc[t].out, 0)
    /\ Len(InputOf(t)) = 1 => FloatIsInt(loc[t].out, 100)

\* C19 witness: the uptime of the single timestamp 5 minutes after the base
\* is 100
C19_Witness ==
  \E t \in Threads :
    /\ UptimeDone(t)
    /\ InputOf(t) = <<Instant(300, 0)>>
    /\ FloatIsInt(loc[t].out, 100)

(***************************************************************************)
(* The average of the upload times in unbounded integers, and the reading  *)
(* of a duration string, both as sign and magnitude.                       *)
(***************************************************************************)
\* t has returned from calculateAvgUploadTime
AvgDone(t) == pc[t] = "stat_done" /\ loc[t].op = "calculateAvgUploadTime"
Signed(neg, mag) == [neg |-> neg /\ mag # << >>, mag |-> mag]
\* the sum of the magnitudes of the elements of s that satisfy the sign neg
RECURSIVE MagSum(_, _)
MagSum(s, neg) ==
  IF s = << >> THEN << >>
  ELSE LET x == s[Len(s)]
           rest == MagSum(SubSeq(s, 1, Len(s) - 1), neg)
       IN IF I64IsNeg(x) = neg THEN NatAdd(rest, I64Abs(x)) ELSE rest
\* the sum of the int64 values of s divided by their number, towards zero
TruncatingAverage(s) ==
  LET pos == MagSum(s, FALSE)
      neg == MagSum(s, TRUE)
  IN IF NatLess(pos, neg) THEN Signed(TRUE, NatDivSmall(NatSub(neg, pos), Len(s)).q)
     ELSE Signed(FALSE, NatDivSmall(NatSub(pos, neg), Len(s)).q)

IsDigit(c) == \E d \in 0..9 : DigitChar(d) = c
DigitValue(c) == CHOOSE d \in 0..9 : DigitChar(d) = c
\* the first position from i on that holds no digit
DigitsEnd(str, i) ==
  CHOOSE j \in i..(Len(str) + 1) :
    /\ j = Len(str) + 1 \/ ~IsDigit(str[j])
    /\ \A k \in i..(j - 1) : IsDigit(str[k])
\* the first position from i on that holds a digit or a point
UnitEnd(str, i) ==
  CHOOSE j \in i..(Len(str) + 1) :
    /\ j = Len(str) + 1 \/ IsDigit(str[j]) \/ str[j] = "."
    /\ \A k \in i..(j - 1) : ~IsDigit(str[k]) /\ str[k] # "."
\* the number written in decimal at the positions i..j-1
RECURSIVE Decimal(_, _, _)
Decimal(str, i, j) ==
  IF j <= i THEN << >>
  ELSE LET rest == Decimal(str, i, j - 1)
       IN IF Len(rest) >= 0
            THEN NatAdd(NatMulSmall(rest, 10), NatOfInt(DigitValue(str[j - 1])))
            ELSE << >>
RECURSIVE Pow10(_)
Pow10(k) == IF k = 0 THEN <<1>> ELSE NatMulSmall(Pow10(k - 1), 10)
\* the nanoseconds of a unit
UnitNs(unit) ==
  IF unit = <<"n", "s">> THEN <<1>>
  ELSE IF unit = <<"µ", "s">> THEN Pow10(3)
  ELSE IF unit = <<"m", "s">> THEN Pow10(6)
  ELSE IF unit = <<"s">> THEN Billion
  ELSE IF unit = <<"m">> THEN MinuteNs
  ELSE NatMulSmall(MinuteNs, 60)
\* the nanoseconds of the terms number[.fraction]unit from position i on
RECURSIVE ParseTerms(_, _)
ParseTerms(str, i) ==
  IF i > Len(str) THEN << >>
  ELSE LET j == DigitsEnd(str, i)
           k == IF j <= Len(str) /\ str[j] = "." THEN DigitsEnd(str, j + 1) ELSE j
           l == UnitEnd(str, k)
           unit == UnitNs(SubSeq(str, k, l - 1))
           number == Decimal(str, i, j)
           fraction == Decimal(str, j + 1, k)
           scale == Pow10(Max(0, k - j - 1))
           whole == IF Len(number) + Len(unit) >= 0 THEN NatMul(number, unit) ELSE << >>
           scaled == IF Len(fraction) + Len(unit) >= 0 THEN NatMul(fraction, unit) ELSE << >>
           frac == IF k = j THEN << >>
                   ELSE IF Len(scaled) + Len(scale) >= 0 THEN NatDivMod(scaled, scale).q
                   ELSE << >>
           rest == ParseTerms(str, l)
       IN IF Len(whole) + Len(frac) + Len(rest) >= 0
            THEN NatAdd(NatAdd(whole, frac), rest)
            ELSE << >>
\* time.ParseDuration(str) for a string that Duration.String can return
ParseDuration(str) ==
  IF str = <<"0", "s">> THEN Signed(FALSE, << >>)
  ELSE IF str[1] = "-" THEN Signed(TRUE, ParseTerms(str, 2))
  ELSE Signed(FALSE, ParseTerms(str, 1))
\* two integers differ by at most 1
WithinOneTick(a, b) ==
  IF a.neg = b.neg \/ a.mag = << >> \/ b.mag = << >>
    THEN ~NatLess(<<1>>, IF a.neg = b.neg THEN NatAbsDiff(a.mag, b.mag) ELSE NatAdd(a.mag, b.mag))
    ELSE FALSE
\* the sum of the upload times lies in the int64 range
SumInRange(s) ==
  LET pos == MagSum(s, FALSE)
      neg == MagSum(s, TRUE)
  IN IF NatLess(pos, neg) THEN ~NatLess(Two63, NatSub(neg, pos))
     ELSE NatLess(NatSub(pos, neg), Two63)

\* C20: for every non-empty sequence of upload times, the string returned
\* by calculateAvgUploadTime, read back as a duration, is within one
\* nanosecond of the truncating average sum / count of the upload times.
C20_AvgTruncating ==
  \A t \in Threads : (AvgDone(t) /\ Len(InputOf(t)) > 0) =>
    WithinOneTick(ParseDuration(loc[t].out), TruncatingAverage(InputOf(t)))

(***************************************************************************)
(* The shape of a duration string: its terms number[.fraction]unit.        *)
(***************************************************************************)
\* the terms from position i on, each with its digits before the point,
\* whether it has a point, its digits after the point, and its unit
RECURSIVE TermsOf(_, _)
TermsOf(str, i) ==
  IF i > Len(str) THEN << >>
  ELSE LET j == DigitsEnd(str, i)
           point == j <= Len(str) /\ str[j] = "."
           k == IF point THEN DigitsEnd(str, j + 1) ELSE j
           l == UnitEnd(str, k)
       IN <<[whole |-> SubSeq(str, i, j - 1), point |-> point,
             frac |-> SubSeq(str, j + 1, k - 1), unit |-> SubSeq(str, k, l - 1)]>>
          \o TermsOf(str, l)
\* the string without its sign
Unsigned(str) == IF str # << >> /\ str[1] = "-" THEN SubSeq(str, 2, Len(str)) ELSE str
\* a number in decimal without leading zeros
PlainNumber(digits) == digits # << >> /\ (digits[1] = "0" => Len(digits) = 1)
\* the units of the compact format for a magnitude in nanoseconds
CompactUnits(mag) ==
  IF NatLess(mag, NatOfInt(1000)) THEN << <<"n", "s">> >>
  ELSE IF NatLess(mag, NatOfInt(1000000)) THEN << <<"µ", "s">> >>
  ELSE IF NatLess(mag, Billion) THEN << <<"m", "s">> >>
  ELSE IF NatLess(mag, MinuteNs) THEN << <<"s">> >>
  ELSE IF NatLess(mag, NatMulSmall(MinuteNs, 60)) THEN << <<"m">>, <<"s">> >>
  ELSE << <<"h">>, <<"m">>, <<"s">> >>
\* str is the compact rendering of the duration it denotes: "0s" for zero,
\* else the units its magnitude calls for, each once, every number plain,
\* minutes and seconds below 60, a fraction only in the last term and only
\* with a last digit that is not 0
IsCompact(str) ==
  LET mag == ParseDuration(str).mag
      terms == TermsOf(Unsigned(str), 1)
  IN IF mag = << >> THEN str = <<"0", "s">>
     ELSE /\ [i \in 1..Len(terms) |-> terms[i].unit] = CompactUnits(mag)
          /\ \A i \in 1..Len(terms) :
               /\ PlainNumber(terms[i].whole)
               /\ i < Len(terms) => ~terms[i].point
               /\ terms[i].point =>
                    terms[i].frac # << >> /\ terms[i].frac[Len(terms[i].frac)] # "0"
               /\ (Len(terms) > 1 /\ i > Len(terms) - 2) =>
                    NatLess(Decimal(terms[i].whole, 1, Len(terms[i].whole) + 1), NatOfInt(60))

AtStatCall(t) == pc[t] = "stat_call"

\* C22: calculateUptime and calculateAvgUploadTime do not modify their
\* input.  The step of either call leaves the caller's slice header, its
\* backing array and with them its elements in their order unchanged.
C22_InputUnchanged ==
  [][\A t \in Threads : (AtStatCall(t) /\ ~AtStatCall(t)') =>
       /\ loc'[t].hdr = loc[t].hdr
       /\ Elems(arrs', loc'[t].hdr) = Elems(arrs, loc[t].hdr)
       /\ \A a \in 1..Len(arrs) : arrs'[a] = arrs[a]]_vars

\* C22 witness: the uptime of three heartbeats given latest first has been
\* computed; the caller's slice still starts with the latest, and a sorted
\* copy exists beside it
C22_Witness ==
  \E t \in Threads :
    /\ UptimeDone(t)
    /\ InputOf(t) = <<Instant(300, 0), Instant(60, 0), Instant(0, 0)>>
    /\ \E a \in 1..Len(arrs) : arrs[a] = <<Instant(0, 0), Instant(60, 0), Instant(300, 0)>>

\* C29: the statistics functions are total.  No call ends in a panic (no
\* index out of range, no integer division by zero), the uptime returned
\* is a finite number (not the quotient of a division by zero), and the
\* average returned is a non-empty string.
C29_Total ==
  \A t \in Threads :
    /\ pc[t] # "stat_panic"
    /\ UptimeDone(t) => loc[t].out.cls = "finite"
    /\ AvgDone(t) => Len(loc[t].out) > 0

\* C29 witness: the average of two zero durations has been returned, "0s"
C29_Witness ==
  \E t \in Threads :
    /\ AvgDone(t)
    /\ InputOf(t) = << << >>, << >> >>
    /\ loc[t].out = <<"0", "s">>

\* t is inside the critical section of an append on the record r
InAppendSection(t, r) == pc[t] \in {"add_read", "add_write", "add_ret"} /\ loc[t].dev = r
\* t has returned nil from an append
AppendSucceeded(t) == pc[t] = "done" /\ loc[t].op \in AddOps /\ loc[t].err = ""

\* C27: a device's sequences are in arrival order.  An append that acquires
\* the device lock is alone in the critical section of that record; until
\* it has written, no other step changes the record; its write puts its
\* value behind all entries present; no step reorders or removes entries;
\* and the value of a returned append is in the sequence, so that a later
\* append of the same caller comes behind it.
C27_ArrivalOrder ==
  [][loaded =>
       /\ \A t \in Threads :
            /\ (pc[t] = "add_wait" /\ pc'[t] = "add_read") =>
                 \A u \in Threads \ {t} : ~InAppendSection(u, loc[t].dev)
            /\ (pc[t] = "add_write" /\ pc'[t] # pc[t]) =>
                 LET F == IF loc[t].op = "AddHeartbeat" THEN "Heartbeats" ELSE "UploadTimes"
                 IN RecView(loc[t].dev)'[F] = RecView(loc[t].dev)[F] \o <<loc[t].val>>
            /\ AppendSucceeded(t) =>
                 LET F == IF loc[t].op = "AddHeartbeat" THEN "Heartbeats" ELSE "UploadTimes"
                 IN \E i \in 1..Len(RegistryView[loc[t].id][F]) :
                      RegistryView[loc[t].id][F][i] = loc[t].val
       /\ heap' # heap =>
            /\ \A t \in Threads :
                 (pc[t] \in {"add_read", "add_write"} /\ pc'[t] = pc[t]) =>
                   RecView(loc[t].dev)' = RecView(loc[t].dev)
            /\ \A d \in Registered, F \in Fields :
                 d \in Registered' /\ IsPrefix(RegistryView[d][F], RegistryView'[d][F])]_vars

\* C27 witness: the heartbeat 1 has been written behind the heartbeat 2,
\* while another append to the same device waits for the device lock
C27_Witness ==
  \E t \in Threads, u \in Threads :
    /\ pc[t] = "add_ret"
    /\ loc[t].op = "AddHeartbeat"
    /\ loc[t].val = 1
    /\ RecView(loc[t].dev).Heartbeats = <<2, 1>>
    /\ pc[u] = "add_lock"
    /\ loc[u].dev = loc[t].dev

\* C28: a successful AddHeartbeat on d changes only d's heartbeat sequence,
\* a successful AddUploadTime on d only d's duration sequence.  Every step
\* of such a call leaves the registered identifiers, the other sequence of
\* d and both sequences of every other device unchanged, and the step that
\* writes lengthens the one sequence by one.
C28_AppendFrame ==
  [][\A t \in Threads :
       (loaded /\ pc'[t] # pc[t] /\ loc'[t].op \in AddOps /\ pc'[t] # "idle") =>
         LET F == IF loc'[t].op = "AddHeartbeat" THEN "Heartbeats" ELSE "UploadTimes"
         IN /\ Registered' = Registered
            /\ \A d \in Registered, G \in Fields :
                 (d # loc'[t].id \/ G # F) => RegistryView'[d][G] = RegistryView[d][G]
            /\ (pc[t] = "add_write") =>
                 Len(RegistryView'[loc[t].id][F]) = Len(RegistryView[loc[t].id][F]) + 1]_vars

\* C28 witness: a heartbeat of d1 has been written while d1 holds an upload
\* time and d2 a heartbeat
C28_Witness ==
  \E t \in Threads :
    /\ pc[t] = "add_ret"
    /\ loc[t].op = "AddHeartbeat"
    /\ loc[t].id = "d1"
    /\ {"d1", "d2"} \subseteq Registered
    /\ Len(RegistryView["d1"].Heartbeats) = 1
    /\ Len(RegistryView["d1"].UploadTimes) = 1
    /\ Len(RegistryView["d2"].Heartbeats) = 1

\* C30: read-your-writes.  In the serving phase, whatever appends and
\* snapshots are under way, every value whose append has returned nil is in
\* its device's sequence, and a snapshot about to be returned holds every
\* value whose append to that device has returned nil so far (so every
\* value acknowledged before the snapshot was asked for).
C30_ReadYourWrites ==
  loaded =>
    /\ \A d \in Registered, F \in Fields :
         acked[d][F] \sqsubseteq SeqBag(RegistryView[d][F])
    /\ \A t \in Threads, F \in Fields :
         AtGetReturn(t) => acked[loc[t].id][F] \sqsubseteq SeqBag(RecView(loc[t].res)[F])

\* C30 witness: a snapshot holding an acknowledged heartbeat is about to be
\* returned while another append to the same device is under way
C30_Witness ==
  \E t \in Threads, u \in Threads :
    /\ AtGetReturn(t)
    /\ acked[loc[t].id].Heartbeats # EmptyBag
    /\ Len(RecView(loc[t].res).Heartbeats) > 0
    /\ loc[u].op \in AddOps
    /\ loc[u].id = loc[t].id
    /\ pc[u] \in {"add_lookup", "add_runlock", "add_lock"}

(***************************************************************************)
(* C23: no lock of the registry is held across file I/O or across the      *)
(* computation of the statistics.  A goroutine that is about to read and   *)
(* parse the CSV file it has opened, and a goroutine of GetStats that is   *)
(* about to call, or has just left, calculateUptime or                     *)
(* calculateAvgUploadTime, holds neither the store's lock nor the lock of  *)
(* any device, in read or in write mode.                                   *)
(***************************************************************************)
HoldsAnyLock(t) ==
  \/ smu.w = t
  \/ t \in smu.r
  \/ \E r \in 1..Len(recs) : HoldsDeviceLock(t, r)

InFileIO(t) == pc[t] = "load_read"

InStatistics(t) == pc[t] \in {"stat_call", "stat_done", "stat_panic"}

C23_NoLockAcrossWork ==
  \A t \in Threads : (InFileIO(t) \/ InStatistics(t)) => ~HoldsAnyLock(t)

\* a statistic is about to be computed from a snapshot while another
\* goroutine holds the lock of the device the snapshot was taken of
C23_Witness ==
  \E t, u \in Threads :
    /\ pc[t] = "stat_call"
    /\ loc[t].handler = "GetStats"
    /\ devices[loc[t].id] # 0
    /\ recs[devices[loc[t].id]].mu.w = u
    /\ pc[u] = "add_write"

(***************************************************************************)
(* C24: GetStats for a registered device answers 204 exactly when the      *)
(* snapshot it obtained holds no heartbeat and no upload time; otherwise   *)
(* it answers 200 with uptime = calculateUptime of the snapshot's          *)
(* heartbeats and avg_upload_time = calculateAvgUploadTime of the          *)
(* snapshot's upload times: heartbeats alone give the average "0s", upload *)
(* times alone give the uptime 0.                                          *)
(***************************************************************************)
\* GetStats has written its response
GetStatsResponded(t) == pc[t] = "responded" /\ loc[t].handler = "GetStats"

\* the snapshot GetDeviceData handed to t
SnapshotOf(t) == RecView(loc[t].res)

C24_StatsResponse ==
  \A t \in Threads : (GetStatsResponded(t) /\ devices[loc[t].id] # 0) =>
    /\ loc[t].res # 0
    /\ loc[t].status \in {200, 204}
    /\ loc[t].status = 204 <=>
         (Len(SnapshotOf(t).Heartbeats) = 0 /\ Len(SnapshotOf(t).UploadTimes) = 0)
    /\ loc[t].status = 200 =>
         /\ loc[t].uptime = calculateUptime(SnapshotOf(t).Heartbeats)
         /\ loc[t].avg = calculateAvgUploadTime(SnapshotOf(t).UploadTimes)
         /\ Len(SnapshotOf(t).UploadTimes) = 0 => loc[t].avg = <<"0", "s">>
         /\ Len(SnapshotOf(t).Heartbeats) = 0 => FloatIsInt(loc[t].uptime, 0)

\* C24 witness: a device with one heartbeat and no upload time is answered
\* 200 with the uptime 100 and the average "0s"
C24_Witness ==
  \E t \in Threads :
    /\ GetStatsResponded(t)
    /\ loc[t].status = 200
    /\ Len(SnapshotOf(t).Heartbeats) = 1
    /\ Len(SnapshotOf(t).UploadTimes) = 0
    /\ FloatIsInt(loc[t].uptime, 100)
    /\ loc[t].avg = <<"0", "s">>

(***************************************************************************)
(* C25: a rejected request stores nothing.  PostHeartbeat and PostStats    *)
(* with a body that does not parse are answered 400 "Invalid request       *)
(* body", whether or not the identifier is registered (the body is checked *)
(* first); PostHeartbeat, PostStats with a body that parses, and GetStats, *)
(* for an identifier that is not registered are answered 404 "Device not   *)
(* found"; and no step of such a request changes the registry.             *)
(***************************************************************************)
\* the request t serves is one the handler rejects
Rejected(t) ==
  /\ loc[t].handler # "none"
  /\ ~loc[t].parses \/ devices[loc[t].id] = 0

C25_RejectedStoresNothing ==
  [][\A t \in Threads :
       /\ (pc'[t] = "responded" /\ loc'[t].handler # "none" /\ ~loc'[t].parses) =>
            (loc'[t].status = 400 /\ loc'[t].msg = "Invalid request body")
       /\ (pc'[t] = "responded" /\ loc'[t].handler # "none" /\ loc'[t].parses
             /\ devices'[loc'[t].id] = 0) =>
            (loc'[t].status = 404 /\ loc'[t].msg = "Device not found")
       /\ (pc'[t] = "responded" /\ loc'[t].status \in {400, 404}) => Rejected(t)'
       /\ ((Rejected(t) \/ Rejected(t)') /\ (pc'[t] # pc[t] \/ loc'[t] # loc[t])) =>
            RegistryView' = RegistryView
  ]_vars

\* C25 witness: a heartbeat whose body does not parse, for an identifier
\* that is not registered, has been answered 400, while the other
\* goroutine's request for an unregistered identifier was answered 404
C25_Witness ==
  \E t, u \in Threads :
    /\ pc[t] = "responded"
    /\ loc[t].handler = "PostHeartbeat"
    /\ ~loc[t].parses
    /\ devices[loc[t].id] = 0
    /\ loc[t].status = 400
    /\ pc[u] = "responded"
    /\ loc[u].handler = "PostStats"
    /\ loc[u].status = 404
    /\ Registered # {}

(***************************************************************************)
(* C26: posted samples are reflected in the statistics.  A POST is         *)
(* answered 204 only once its sample is stored; the one snapshot a         *)
(* GetStats obtains holds every sample stored by then, hence every sample  *)
(* whose POST was answered 204 before the GetStats started; the snapshot   *)
(* stays as it is to the end of the request, and both statistics of a 200  *)
(* are those of that snapshot: with heartbeats posted at 0 and at 4        *)
(* minutes and upload times of 3s, n heartbeats spanning the 4 minutes     *)
(* give 25 * n, heartbeats of one instant give 100, and the average is     *)
(* "3s".                                                                   *)
(***************************************************************************)
\* the uptime of a snapshot's heartbeats, all of them at 0 or at 4 minutes
ExpectedUptime(hb) ==
  IF Len(hb) = 0 THEN 0
  ELSE IF \E i, j \in 1..Len(hb) : hb[i] # hb[j] THEN 25 * Len(hb)
  ELSE 100

\* GetStats holds the snapshot, complete, and has not answered yet
SnapshotTaken(t) ==
  /\ loc[t].handler = "GetStats"
  /\ loc[t].res # 0
  /\ pc[t] \in {"get_ret", "done", "stat_call", "stat_done"}

C26_PostedSamplesInStats ==
  [][\A t \in Threads :
       /\ (pc'[t] = "responded" /\ loc'[t].status = 204
             /\ loc'[t].handler \in {"PostHeartbeat", "PostStats"}) =>
            BagIn(loc'[t].val, acked'[loc'[t].id][FieldOf(StoreCall(loc'[t].handler))])
       /\ (pc'[t] = "get_ret" /\ loc'[t].handler = "GetStats") =>
            \A F \in Fields : acked'[loc'[t].id][F] \sqsubseteq SeqBag(SnapshotOf(t)'[F])
       /\ SnapshotTaken(t) =>
            (loc'[t].res = loc[t].res /\ SnapshotOf(t)' = SnapshotOf(t))
       /\ (pc'[t] = "responded" /\ loc'[t].status = 200) =>
            /\ FloatIsInt(loc'[t].uptime, ExpectedUptime(SnapshotOf(t)'.Heartbeats))
            /\ loc'[t].avg = (IF Len(SnapshotOf(t)'.UploadTimes) = 0 THEN <<"0", "s">>
                                                                    ELSE <<"3", "s">>)
  ]_vars

\* C26 witness: after a heartbeat and an upload time were posted and
\* answered, GetStats has answered 200 from a snapshot holding both
C26_Witness ==
  \E t \in Threads :
    /\ GetStatsResponded(t)
    /\ loc[t].status = 200
    /\ SnapshotOf(t).Heartbeats = <<Instant(240, 0)>>
    /\ SnapshotOf(t).UploadTimes = <<Nanos(3, 0)>>
    /\ acked[loc[t].id]["Heartbeats"] = SetToBag({Instant(240, 0)})
    /\ acked[loc[t].id]["UploadTimes"] = SetToBag({Nanos(3, 0)})
    /\ \A u \in Threads \ {t} : pc[u] = "idle"
    /\ FloatIsInt(loc[t].uptime, 100)
    /\ loc[t].avg = <<"3", "s">>

(***************************************************************************)
(* C31: per-device mutual exclusion.  At most one AddHeartbeat or          *)
(* AddUploadTime is inside the critical section of a device record, and no *)
(* GetDeviceData is copying the sequences of a record while an append is   *)
(* inside its critical section; several GetDeviceData may copy one record  *)
(* at once.                                                                *)
(***************************************************************************)
\* t is between device.mu.RLock() and the deferred RUnlock() of record r
InCopySection(t, r) ==
  /\ pc[t] \in {"get_make", "get_copy_hb", "get_copy_up", "get_ret", "get_panic"}
  /\ loc[t].dev = r

C31_MutualExclusion ==
  \A r \in 1..Len(recs) : \A t \in Threads : \A u \in Threads \ {t} :
    InAppendSection(t, r) => (~InAppendSection(u, r) /\ ~InCopySection(u, r))

\* C31 witness: two GetDeviceData calls are copying the sequences of one
\* record at once, after an append to it
C31_Witness ==
  \E t \in Threads : \E u \in Threads \ {t} : \E r \in 1..Len(recs) :
    /\ InCopySection(t, r)
    /\ InCopySection(u, r)
    /\ pc[t] = "get_copy_up"
    /\ pc[u] = "get_copy_hb"
    /\ recs[r].Heartbeats.n > 0

(***************************************************************************)
(* C32: locks are never nested.  No goroutine holds, or has announced      *)
(* itself as writer of, two locks of the registry at once: a goroutine at  *)
(* the lock of a device record has released the store's lock, and a        *)
(* goroutine at the store's lock holds no device lock.                     *)
(***************************************************************************)
\* the locks t holds or has announced itself as writer of: 0 is the
\* store's lock, r > 0 the lock of record r
LocksHeld(t) ==
  (IF smu.w = t \/ t \in smu.r THEN {0} ELSE {})
    \cup {r \in 1..Len(recs) : HoldsDeviceLock(t, r)}

\* t stands at s.mu.Lock()
AtStoreLock(t) == pc[t] \in {"load_lock", "load_wait"}

C32_NoNestedLocks ==
  \A t \in Threads :
    /\ Cardinality(LocksHeld(t)) <= 1
    /\ AtDeviceLock(t) => 0 \notin LocksHeld(t)
    /\ (AtStoreLock(t) \/ pc[t] = "idle") => LocksHeld(t) \subseteq {0}
    /\ pc[t] \in {"idle", "done", "panicked"} => LocksHeld(t) = {}

\* C32 witness: an append holds the lock of a record while a load holds the
\* store's lock for writing
C32_Witness ==
  \E t \in Threads : \E u \in Threads \ {t} :
    /\ pc[t] = "add_write"
    /\ LocksHeld(t) = {loc[t].dev}
    /\ pc[u] = "load_loop"
    /\ LocksHeld(u) = {0}

(***************************************************************************)
(* C33: the handlers' check-then-act is safe.  In the serving phase, the   *)
(* store method a handler calls after DeviceExists returned true finds the *)
(* device and returns no error, whatever the other goroutine's requests do *)
(* in between: no handler answers 500 and none panics.                     *)
(***************************************************************************)
\* t is inside, or back from, the store method its handler called after
\* DeviceExists returned true
InStoreCall(t) ==
  /\ loc[t].handler # "none"
  /\ loc[t].op \in {"AddHeartbeat", "AddUploadTime", "GetDeviceData"}

C33_CheckThenAct ==
  \A t \in Threads :
    /\ InStoreCall(t) =>
         /\ devices[loc[t].id] # 0
         /\ loc[t].err = ""
         /\ pc[t] \notin {"add_lookup", "get_lookup"} =>
              (loc[t].exists /\ loc[t].dev = devices[loc[t].id])
    /\ loc[t].handler # "none" =>
         (loc[t].status # 500 /\ pc[t] \notin {"panicked", "stat_panic", "get_panic"})

\* C33 witness: AddHeartbeat has returned nil to PostHeartbeat, after the
\* other goroutine's request for the same device was answered in between
C33_Witness ==
  \E t \in Threads : \E u \in Threads \ {t} :
    /\ InStoreCall(t)
    /\ loc[t].handler = "PostHeartbeat"
    /\ pc[t] = "done"
    /\ loc[t].err = ""
    /\ pc[u] = "responded"
    /\ loc[u].handler = "PostStats"
    /\ loc[u].id = loc[t].id
    /\ loc[u].status = 204

(***************************************************************************)
(* C34: for every non-empty sequence of upload times, the average that     *)
(* calculateAvgUploadTime returns, read back as a duration, lies between   *)
(* the smallest and the largest of the upload times, also when their sum   *)
(* leaves the int64 range.                                                 *)
(***************************************************************************)
\* the int64 x as sign and magnitude
SignedOf(x) == Signed(I64IsNeg(x), I64Abs(x))
\* a <= b for integers given as sign and magnitude
SignedLeq(a, b) ==
  IF a.neg # b.neg THEN a.neg
  ELSE IF a.neg THEN ~NatLess(a.mag, b.mag)
  ELSE ~NatLess(b.mag, a.mag)

C34_AvgBetweenMinMax ==
  \A t \in Threads : (AvgDone(t) /\ Len(InputOf(t)) > 0) =>
    LET avg == ParseDuration(loc[t].out)
    IN /\ \E i \in 1..Len(InputOf(t)) : SignedLeq(SignedOf(InputOf(t)[i]), avg)
       /\ \E i \in 1..Len(InputOf(t)) : SignedLeq(avg, SignedOf(InputOf(t)[i]))

(***************************************************************************)
(* C35: DeviceExists and GetDeviceData are read-only.  No step of either   *)
(* call, whether it finds the device or not, changes the set of registered *)
(* identifiers or a sequence of any device; the registry changes only by   *)
(* the write of an append or by a load, so the calls interleaved with      *)
(* appends leave the registry what the appends make it.                    *)
(***************************************************************************)
\* the step is one of a DeviceExists or GetDeviceData call of t, or of the
\* caller that holds what the call returned
ReadStep(t) ==
  /\ pc'[t] # pc[t] \/ loc'[t] # loc[t]
  /\ \/ loc[t].op \in {"DeviceExists", "GetDeviceData"}
     \/ loc'[t].op \in {"DeviceExists", "GetDeviceData"}

C35_ReadOnly ==
  [][/\ \A t \in Threads : ReadStep(t) => RegistryView' = RegistryView
     /\ RegistryView' # RegistryView =>
          \E t \in Threads : /\ pc[t] \in {"add_write", "load_loop"}
                             /\ pc'[t] # pc[t] \/ loc'[t] # loc[t]
    ]_vars

\* C35 witness: a GetDeviceData that found no device and a DeviceExists
\* that found one have returned, and the heartbeat appended before is in
\* the registry
C35_Witness ==
  \E t \in Threads : \E u \in Threads \ {t} :
    /\ pc[t] = "done"
    /\ loc[t].op = "GetDeviceData"
    /\ loc[t].err = "device not found"
    /\ pc[u] = "done"
    /\ loc[u].op = "DeviceExists"
    /\ loc[u].exists
    /\ Len(RegistryView[loc[u].id].Heartbeats) = 1

(***************************************************************************)
(* C36: an append that overlaps a bulk load is not lost.  When an          *)
(* AddHeartbeat or AddUploadTime returns nil and every load has returned,  *)
(* the appended value is in the sequence the registry holds for the        *)
(* device, which is what any GetDeviceData taken from then on copies.  An  *)
(* append whose value is missing at its return wrote to a record that a    *)
(* load replaced between the append's lookup and its return, so it         *)
(* overlapped that load.                                                   *)
(***************************************************************************)
\* no LoadDevicesFromCSV call has started and not yet returned
NoLoadInFlight == \A t \in Threads : loc[t].op = "Load" => pc[t] = "done"

C36_OverlappingAppendKept ==
  [][\A t \in Threads :
       (pc[t] = "add_ret" /\ pc'[t] = "done" /\ NoLoadInFlight') =>
         /\ loc[t].id \in Registered'
         /\ BagIn(loc[t].val, SeqBag(RegistryView'[loc[t].id][FieldOf(loc[t].op)]))
    ]_vars

=============================================================================
